---- MODULE Spec2Model ----
(***************************************************************************)
(* Model of the DLCF E-Library: the Express server (src/server.ts) with    *)
(* its identity store (users, registration_links), and the React client    *)
(* (src/src/App.tsx): session/view state and the add-material pipeline.    *)
(*                                                                         *)
(* Every await of a handler is a step boundary: between the store calls    *)
(* of one request the store calls of other requests may run.               *)
(***************************************************************************)
EXTENDS Integers, FiniteSets, Sequences, TLC

VARIABLES
    configured,   \* SUPABASE_URL and SUPABASE_ANON_KEY are set (getSupabase)
    tzShift,      \* change of the server's local UTC offset at DstAt (hours)
    now,          \* the server clock, in hours (new Date())
    users,        \* rows of table users
    links,        \* rows of table registration_links
    nextUser,     \* uuidv4() for user rows: the next fresh id
    nextLink,     \* uuidv4() for link rows and tokens: the next fresh index
    reg,          \* the POST /api/auth/register requests, by request slot
    lastLogin,    \* the latest POST /api/auth/login request and its response
    appr,         \* the POST /api/admin/approve-user request in progress
    approvals,    \* history: ids whose row approve-user has updated
    tokenUses,    \* history: number of user rows inserted per token
    user,         \* client: useState<User | null>
    view,         \* client: useState 'login' | 'register' | 'library' | 'admin'
    regToken,     \* client: useState<string | null>
    loginCalls,   \* client: handleLogin invocations awaiting their response
    lastToast,    \* client: the latest showToast of handleLogin
    handled,      \* history: the latest login result handleLogin handled
    up,           \* client: the handleAddBook invocation (position, results)
    form,         \* client: the add-material form's fields
    catalog,      \* rows of table books, in the order of their insertion
    nextBook,     \* uuidv4() for book rows: the next fresh id
    pendingUsers, \* client: useState<any[]>, the admin panel's pending users
    adminLinks,   \* client: useState<RegistrationLink[]>
    books,        \* client: useState<Book[]>
    ops,          \* client: approveUser, deleteLink, deleteBook invocations
    fetches,      \* client: fetchAdminData invocations
    lastOp,       \* history: the latest optimistic removal that ended
    lastFetch,    \* history: the latest fetchAdminData that ended
    filters,      \* client: useState<FilterState>
    dbError,      \* client: useState<string | null>, the banner notice
    booksFetch,   \* client: the fetchBooks invocation of the page load
    regCalls,     \* client: the invocations of handleRegister
    smtp,         \* server: process.env.SMTP_HOST is set
    mail,         \* server: the approval emails in flight, sent and failed
    lastRequest   \* history: the latest direct request to an admin route

serverVars == <<configured, tzShift, now, users, links, nextUser, nextLink,
                reg, lastLogin, appr, approvals, tokenUses>>
clientVars == <<user, view, regToken, loginCalls, lastToast, handled>>
uploadVars == <<up, form>>
catalogVars == <<catalog, nextBook>>
adminVars == <<pendingUsers, adminLinks, books, ops, fetches, lastOp, lastFetch>>
libraryVars == <<filters, dbError, booksFetch>>
moreVars == <<regCalls, smtp, mail, lastRequest>>
restVars == <<adminVars, libraryVars, moreVars>>
vars == <<serverVars, clientVars, uploadVars, catalogVars, restVars>>

----------------------------------------------------------------------------
(* Bounds of the model *)

MaxReg == 2
MaxLinks == 1
EarlyMax == 0
LateMin == 24
MaxNow == 25
DstAt == 12
MaxLoginCalls == 2
MaxBooks == 2
MaxFetches == 1
MaxOps == 2

(* Program constants *)

HoursValid == 24

----------------------------------------------------------------------------
(* Inputs *)

AdminEmail == "admin@dlcf.org"
Emails == {AdminEmail, "a@x", "b@x"}
Passwords == {"admin123", "pw"}
\* what the registration form is filled with
RegEmails == {AdminEmail, "a@x", "b@x"}
RegPasswords == {"pw"}
Names == {"Ann"}

\* a token no link ever had
BogusToken == 10
TokenOf(k) == 10 + k
IssuedTokens == {TokenOf(k) : k \in 1..(nextLink - 1)}

\* the instants the server clock takes
Instants == {t \in 0..MaxNow : t <= EarlyMax \/ t >= LateMin}

----------------------------------------------------------------------------
(* The server's local time zone: Date.prototype.getHours / setHours work   *)
(* on local time, toISOString and the store on UTC.                        *)

LocalOffset(u) == IF u < DstAt THEN 0 ELSE tzShift

LocalTime(u) == u + LocalOffset(u)

\* UTC(t) of ECMAScript: a local time that occurs twice or never is read
\* with the offset in force before the transition
UTCofLocal(l) ==
    IF l < DstAt THEN l
    ELSE IF l - tzShift >= DstAt THEN l - tzShift
    ELSE l

\* expiresAt.setHours(expiresAt.getHours() + 24); expiresAt.toISOString()
ExpiresAt(t) == UTCofLocal(LocalTime(t) + HoursValid)

----------------------------------------------------------------------------
(* Store rows *)

NoLink == [id |-> 0, token |-> 0, expires_at |-> 0, created_at |-> 0]
NoUser == [id |-> 0, email |-> "", password |-> "", name |-> "",
           is_approved |-> FALSE, is_admin |-> FALSE]

\* .eq('token', token).single(): the row, or an error unless exactly one row
LinksWithToken(t) == {l \in links : l.token = t}

SingleLink(t) ==
    IF Cardinality(LinksWithToken(t)) = 1
    THEN CHOOSE l \in LinksWithToken(t) : TRUE
    ELSE NoLink

UsersMatchingEmailOnly(e, p) == {u \in users : u.email = e}

\* .eq('email', email).eq('password', password).single()
UsersMatching(e, p) == {u \in users : u.email = e /\ u.password = p}

SingleUser(e, p) ==
    IF Cardinality(UsersMatching(e, p)) = 1
    THEN CHOOSE u \in UsersMatching(e, p) : TRUE
    ELSE NoUser

\* users.email is UNIQUE: the insert of a second row with the email fails
EmailTaken(e) == \E u \in users : u.email = e

----------------------------------------------------------------------------
(* Responses *)

NoBody == [absent |-> TRUE]
ConfigError == "SUPABASE_URL and SUPABASE_ANON_KEY are required"

Reply(status, error, body) == [status |-> status, error |-> error, user |-> body]

NoReply == Reply(0, "", NoBody)

\* POST /api/auth/login, after the lookup: found is !(error || !user)
LoginReplyLeak(found, row) ==
    IF ~found THEN Reply(401, "Invalid credentials", NoBody)
    ELSE IF ~row.is_approved /\ ~row.is_admin
    THEN Reply(403, "Account pending approval", NoBody)
    ELSE Reply(200, "", row)

LoginReplyNoAdmin(found, row) ==
    IF ~found THEN Reply(401, "Invalid credentials", NoBody)
    ELSE IF ~row.is_approved
    THEN Reply(403, "Account pending approval", NoBody)
    ELSE Reply(200, "", [id |-> row.id, email |-> row.email,
                         name |-> row.name, isAdmin |-> row.is_admin])

LoginReply(found, row) ==
    IF ~found THEN Reply(401, "Invalid credentials", NoBody)
    ELSE IF ~row.is_approved /\ ~row.is_admin
    THEN Reply(403, "Account pending approval", NoBody)
    ELSE Reply(200, "", [id |-> row.id, email |-> row.email,
                         name |-> row.name, isAdmin |-> row.is_admin])

\* the whole handler: getSupabase() throws when the store is not configured
LoginHandler(e, p) ==
    IF ~configured THEN Reply(500, ConfigError, NoBody)
    ELSE LoginReply(SingleUser(e, p) # NoUser, SingleUser(e, p))

----------------------------------------------------------------------------
(* POST /api/auth/register *)

IdleReg == [pc |-> "idle", email |-> "", password |-> "", name |-> "",
            token |-> 0, found |-> FALSE, link |-> NoLink, checkedAt |-> -1,
            emailFree |-> FALSE, inserted |-> 0, row |-> NoUser,
            deleted |-> 0, status |-> 0, error |-> "", linkGone |-> FALSE]

RegDone(r, status, error) ==
    [r EXCEPT !.pc = "done", !.status = status, !.error = error]

\* the request arrives; the store runs the select of the link
Register(i, e, p, n, t) ==
    /\ reg[i].pc = "idle"
    /\ \A j \in 1..(i - 1) : reg[j].pc # "idle"
    /\ LET r == [IdleReg EXCEPT !.email = e, !.password = p, !.name = n,
                                !.token = t]
       IN reg' = [reg EXCEPT ![i] =
              IF ~configured THEN RegDone(r, 400, ConfigError)
              ELSE [r EXCEPT !.pc = "check",
                             !.found = (SingleLink(t) # NoLink),
                             !.link = SingleLink(t)]]
    /\ UNCHANGED <<configured, tzShift, now, users, links, nextUser, nextLink,
                   lastLogin, appr, approvals, tokenUses>>
    /\ UNCHANGED <<clientVars, uploadVars, catalogVars, restVars>>

ExpiredNever(link, t) == FALSE

\* new Date(link.expires_at) < new Date()
Expired(link, t) == link.expires_at < t

\* the handler continues with the result: link checks, then issues the insert
RegisterCheck(i) ==
    /\ reg[i].pc = "check"
    /\ LET r == [reg[i] EXCEPT !.checkedAt = now]
       IN reg' = [reg EXCEPT ![i] =
              IF ~r.found THEN RegDone(r, 400, "Invalid registration link")
              ELSE IF Expired(r.link, now)
              THEN RegDone(r, 400, "Registration link expired")
              ELSE [r EXCEPT !.pc = "insert"]]
    /\ UNCHANGED <<configured, tzShift, now, users, links, nextUser, nextLink,
                   lastLogin, appr, approvals, tokenUses>>
    /\ UNCHANGED <<clientVars, uploadVars, catalogVars, restVars>>

NewUserApproved(id, r) ==
    [id |-> id, email |-> r.email, password |-> r.password, name |-> r.name,
     is_approved |-> TRUE, is_admin |-> FALSE]

NewUser(id, r) ==
    [id |-> id, email |-> r.email, password |-> r.password, name |-> r.name,
     is_approved |-> FALSE, is_admin |-> FALSE]

RegisterInsertConsumesLink(i) ==
    /\ reg[i].pc = "insert"
    /\ LET r == [reg[i] EXCEPT !.emailFree = ~EmailTaken(reg[i].email)]
       IN IF EmailTaken(r.email)
          THEN /\ reg' = [reg EXCEPT ![i] = RegDone(r, 400, "duplicate key")]
               /\ links' = links \ LinksWithToken(r.token)
               /\ UNCHANGED <<users, nextUser, tokenUses>>
          ELSE /\ users' = users \cup {NewUser(nextUser, r)}
               /\ nextUser' = nextUser + 1
               /\ tokenUses' = [tokenUses EXCEPT ![r.token] = @ + 1]
               /\ links' = links
               /\ reg' = [reg EXCEPT ![i] =
                      [r EXCEPT !.pc = "delete", !.inserted = @ + 1,
                                !.row = NewUser(nextUser, r)]]
    /\ UNCHANGED <<configured, tzShift, now, nextLink, lastLogin, appr,
                   approvals>>
    /\ UNCHANGED <<clientVars, uploadVars, catalogVars, restVars>>

\* the store runs the insert of the user row; regError is thrown to the catch
RegisterInsert(i) ==
    /\ reg[i].pc = "insert"
    /\ LET r == [reg[i] EXCEPT !.emailFree = ~EmailTaken(reg[i].email)]
       IN IF EmailTaken(r.email)
          THEN /\ reg' = [reg EXCEPT ![i] = RegDone(r, 400, "duplicate key")]
               /\ UNCHANGED <<users, nextUser, tokenUses>>
          ELSE /\ users' = users \cup {NewUser(nextUser, r)}
               /\ nextUser' = nextUser + 1
               /\ tokenUses' = [tokenUses EXCEPT ![r.token] = @ + 1]
               /\ reg' = [reg EXCEPT ![i] =
                      [r EXCEPT !.pc = "delete", !.inserted = @ + 1,
                                !.row = NewUser(nextUser, r)]]
    /\ UNCHANGED <<configured, tzShift, now, links, nextLink, lastLogin, appr,
                   approvals>>
    /\ UNCHANGED <<clientVars, uploadVars, catalogVars, restVars>>

RegisterDeleteKeepsLink(i) ==
    /\ reg[i].pc = "delete"
    /\ links' = links
    /\ reg' = [reg EXCEPT ![i] =
           [RegDone(reg[i], 200, "") EXCEPT
               !.linkGone = (\A l \in links' : l.token # reg[i].token)]]
    /\ UNCHANGED <<configured, tzShift, now, users, nextUser, nextLink,
                   lastLogin, appr, approvals, tokenUses>>
    /\ UNCHANGED <<clientVars, uploadVars, catalogVars, restVars>>

\* the store runs the delete of the used link; then res.json({ success: true })
RegisterDelete(i) ==
    /\ reg[i].pc = "delete"
    /\ links' = links \ LinksWithToken(reg[i].token)
    /\ reg' = [reg EXCEPT ![i] =
           [RegDone(reg[i], 200, "") EXCEPT
               !.deleted = Cardinality(LinksWithToken(reg[i].token)),
               !.linkGone = (\A l \in links' : l.token # reg[i].token)]]
    /\ UNCHANGED <<configured, tzShift, now, users, nextUser, nextLink,
                   lastLogin, appr, approvals, tokenUses>>
    /\ UNCHANGED <<clientVars, uploadVars, catalogVars, restVars>>

----------------------------------------------------------------------------
(* POST /api/auth/login *)

NoLogin == [email |-> "", password |-> "", found |-> FALSE, row |-> NoUser,
            approvedByAdmin |-> FALSE, resp |-> NoReply]

Login(e, p) ==
    /\ lastLogin' = [email |-> e, password |-> p,
                     found |-> configured /\ SingleUser(e, p) # NoUser,
                     row |-> IF configured THEN SingleUser(e, p) ELSE NoUser,
                     approvedByAdmin |->
                         configured /\ SingleUser(e, p).id \in approvals,
                     resp |-> LoginHandler(e, p)]
    /\ UNCHANGED <<configured, tzShift, now, users, links, nextUser, nextLink,
                   reg, appr, approvals, tokenUses>>
    /\ UNCHANGED <<clientVars, uploadVars, catalogVars, restVars>>

----------------------------------------------------------------------------
(* POST /api/admin/approve-user *)

IdleAppr == [pc |-> "idle", userId |-> 0, status |-> 0]

\* the user ids whose approval email is being sent by transporter.sendMail,
\* has been sent, has failed
NoMail == [sending |-> {}, sent |-> {}, failed |-> {}]

\* sendApprovalEmail up to its await transporter.sendMail(mailOptions):
\* it returns at once where SMTP_HOST is not set
SendApprovalEmail(m, id) ==
    IF smtp THEN [m EXCEPT !.sending = @ \cup {id}] ELSE m

UserIds == {u.id : u \in users}

\* 1. Get user details first: .eq('id', userId).single()
ApproveFetch(id) ==
    /\ appr.pc \in {"idle", "done"}
    /\ appr' = IF ~configured \/ id \notin UserIds
               THEN [pc |-> "done", userId |-> id, status |-> 500]
               ELSE [pc |-> "update", userId |-> id, status |-> 0]
    /\ UNCHANGED <<configured, tzShift, now, users, links, nextUser, nextLink,
                   reg, lastLogin, approvals, tokenUses>>
    /\ UNCHANGED <<clientVars, uploadVars, catalogVars, restVars>>

ApproveUpdateToggles ==
    /\ appr.pc = "update"
    /\ users' = {IF u.id = appr.userId
                 THEN [u EXCEPT !.is_approved = ~u.is_approved]
                 ELSE u : u \in users}
    /\ approvals' = approvals \cup {appr.userId}
    /\ mail' = SendApprovalEmail(mail, appr.userId)
    /\ appr' = [appr EXCEPT !.pc = "done", !.status = 200]
    /\ UNCHANGED <<configured, tzShift, now, links, nextUser, nextLink, reg,
                   lastLogin, tokenUses>>
    /\ UNCHANGED <<clientVars, uploadVars, catalogVars, adminVars, libraryVars,
                   regCalls, smtp, lastRequest>>

\* 2. Update approval status; 3. sendApprovalEmail(user.email, user.name),
\* not awaited; res.json({ success: true })
ApproveUpdate ==
    /\ appr.pc = "update"
    /\ users' = {IF u.id = appr.userId THEN [u EXCEPT !.is_approved = TRUE]
                 ELSE u : u \in users}
    /\ approvals' = approvals \cup {appr.userId}
    /\ mail' = SendApprovalEmail(mail, appr.userId)
    /\ appr' = [appr EXCEPT !.pc = "done", !.status = 200]
    /\ UNCHANGED <<configured, tzShift, now, links, nextUser, nextLink, reg,
                   lastLogin, tokenUses>>
    /\ UNCHANGED <<clientVars, uploadVars, catalogVars, adminVars, libraryVars,
                   regCalls, smtp, lastRequest>>

MailFrame ==
    /\ UNCHANGED <<configured, tzShift, now, links, nextUser, nextLink, reg,
                   lastLogin, tokenUses>>
    /\ UNCHANGED <<clientVars, uploadVars, catalogVars, adminVars, libraryVars,
                   regCalls, smtp, lastRequest>>

MailDoneFailsApproval(id, outcome) ==
    /\ id \in mail.sending
    /\ outcome \in {"sent", "failed"}
    /\ mail' = IF outcome = "sent"
               THEN [mail EXCEPT !.sending = @ \ {id}, !.sent = @ \cup {id}]
               ELSE [mail EXCEPT !.sending = @ \ {id}, !.failed = @ \cup {id}]
    /\ IF outcome = "failed" /\ appr.userId = id /\ appr.pc = "done"
       THEN /\ appr' = [appr EXCEPT !.status = 500]
            /\ users' = {IF u.id = id THEN [u EXCEPT !.is_approved = FALSE]
                         ELSE u : u \in users}
       ELSE UNCHANGED <<appr, users>>
    /\ UNCHANGED approvals
    /\ MailFrame

\* sendApprovalEmail after its await: sendMail has resolved, or it has
\* rejected and the catch logs the error
MailDone(id, outcome) ==
    /\ id \in mail.sending
    /\ outcome \in {"sent", "failed"}
    /\ mail' = IF outcome = "sent"
               THEN [mail EXCEPT !.sending = @ \ {id}, !.sent = @ \cup {id}]
               ELSE [mail EXCEPT !.sending = @ \ {id}, !.failed = @ \cup {id}]
    /\ UNCHANGED <<appr, users, approvals>>
    /\ MailFrame

----------------------------------------------------------------------------
(* POST /api/admin/generate-link, DELETE /api/admin/links/:id *)

GenerateLink ==
    /\ nextLink <= MaxLinks
    /\ IF ~configured
       THEN UNCHANGED <<links, nextLink>>
       ELSE /\ links' = links \cup {[id |-> nextLink,
                                     token |-> TokenOf(nextLink),
                                     expires_at |-> ExpiresAt(now),
                                     created_at |-> now]}
            /\ nextLink' = nextLink + 1
    /\ UNCHANGED <<configured, tzShift, now, users, nextUser, reg, lastLogin,
                   appr, approvals, tokenUses>>
    /\ UNCHANGED <<clientVars, uploadVars, catalogVars, restVars>>

DeleteLink(id) ==
    /\ configured
    /\ links' = {l \in links : l.id # id}
    /\ UNCHANGED <<configured, tzShift, now, users, nextUser, nextLink, reg,
                   lastLogin, appr, approvals, tokenUses>>
    /\ UNCHANGED <<clientVars, uploadVars, catalogVars, restVars>>

\* the server clock advances
Tick(t) ==
    /\ t > now
    /\ now' = t
    /\ UNCHANGED <<configured, tzShift, users, links, nextUser, nextLink, reg,
                   lastLogin, appr, approvals, tokenUses>>
    /\ UNCHANGED <<clientVars, uploadVars, catalogVars, restVars>>

----------------------------------------------------------------------------
(* Client: session and view state (src/src/App.tsx) *)

NoToast == [type |-> "", message |-> ""]
Toast(message, type) == [type |-> type, message |-> message]

\* signedOut is history: a sign-out happened while the call was in flight
IdleCall == [pc |-> "idle", email |-> "", password |-> "", served |-> FALSE,
             matched |-> FALSE, resp |-> NoReply, signedOut |-> FALSE]

NoneHandled == [done |-> FALSE, served |-> FALSE, matched |-> FALSE,
                status |-> 0, kept |-> TRUE, stale |-> FALSE]

\* res.ok
Ok(resp) == resp.status >= 200 /\ resp.status <= 299

\* handleLogin up to its await fetch('/api/auth/login'): the form of the
\* login view is submitted
HandleLogin(k, e, p) ==
    /\ view = "login"
    /\ loginCalls[k].pc = "idle"
    /\ \A j \in 1..(k - 1) : loginCalls[j].pc # "idle"
    /\ loginCalls' = [loginCalls EXCEPT ![k] =
           [IdleCall EXCEPT !.pc = "sent", !.email = e, !.password = p]]
    /\ UNCHANGED <<user, view, regToken, lastToast, handled>>
    /\ UNCHANGED <<serverVars, uploadVars, catalogVars, restVars>>

\* the server runs POST /api/auth/login for the request and answers
LoginServe(k) ==
    /\ loginCalls[k].pc = "sent"
    /\ loginCalls' = [loginCalls EXCEPT ![k] =
           [@ EXCEPT !.pc = "answered", !.served = TRUE,
                     !.matched = \E u \in users :
                         /\ u.email = loginCalls[k].email
                         /\ u.password = loginCalls[k].password,
                     !.resp = LoginHandler(loginCalls[k].email,
                                           loginCalls[k].password)]]
    /\ UNCHANGED <<user, view, regToken, lastToast, handled>>
    /\ UNCHANGED <<serverVars, uploadVars, catalogVars, restVars>>

\* the request does not reach the handler: fetch rejects, or the host
\* answers 404 for the route
LoginUnreached(k, kind) ==
    /\ loginCalls[k].pc = "sent"
    /\ loginCalls' = [loginCalls EXCEPT ![k] =
           IF kind = "reject" THEN [@ EXCEPT !.pc = "failed"]
           ELSE [@ EXCEPT !.pc = "answered", !.resp = Reply(404, "", NoBody)]]
    /\ UNCHANGED <<user, view, regToken, lastToast, handled>>
    /\ UNCHANGED <<serverVars, uploadVars, catalogVars, restVars>>

\* the view a successful login switches to
ViewAfterLogin(u) == IF u.isAdmin THEN "admin" ELSE "library"

LoginResponseDropsStale(k) ==
    /\ loginCalls[k].pc \in {"answered", "failed"}
    /\ loginCalls' = [loginCalls EXCEPT ![k] = IdleCall]
    /\ LET resp == loginCalls[k].resp
       IN IF loginCalls[k].pc = "failed"
          THEN /\ lastToast' = Toast("Could not connect to the server", "error")
               /\ UNCHANGED <<user, view>>
          ELSE IF resp.status = 404
          THEN /\ lastToast' = Toast("Login API not found", "error")
               /\ UNCHANGED <<user, view>>
          ELSE IF Ok(resp) /\ ~loginCalls[k].signedOut
          THEN /\ user' = resp.user
               /\ view' = ViewAfterLogin(resp.user)
               /\ lastToast' = Toast("Welcome back", "success")
          ELSE IF Ok(resp)
          THEN UNCHANGED <<user, view, lastToast>>
          ELSE /\ lastToast' = Toast(IF resp.error # "" THEN resp.error
                                     ELSE "Login failed", "error")
               /\ UNCHANGED <<user, view>>
    /\ handled' = [done |-> TRUE, served |-> loginCalls[k].served,
                   matched |-> loginCalls[k].matched,
                   status |-> loginCalls[k].resp.status,
                   kept |-> (user' = user /\ view' = view),
                   stale |-> loginCalls[k].signedOut]
    /\ UNCHANGED regToken
    /\ UNCHANGED <<serverVars, uploadVars, catalogVars, restVars>>

\* handleLogin after its await: the response, or the rejection, arrives
LoginResponse(k) ==
    /\ loginCalls[k].pc \in {"answered", "failed"}
    /\ loginCalls' = [loginCalls EXCEPT ![k] = IdleCall]
    /\ LET resp == loginCalls[k].resp
       IN IF loginCalls[k].pc = "failed"
          THEN /\ lastToast' = Toast("Could not connect to the server", "error")
               /\ UNCHANGED <<user, view>>
          ELSE IF resp.status = 404
          THEN /\ lastToast' = Toast("Login API not found", "error")
               /\ UNCHANGED <<user, view>>
          ELSE IF Ok(resp)
          THEN /\ user' = resp.user
               /\ view' = ViewAfterLogin(resp.user)
               /\ lastToast' = Toast("Welcome back", "success")
          ELSE /\ lastToast' = Toast(IF resp.error # "" THEN resp.error
                                     ELSE "Login failed", "error")
               /\ UNCHANGED <<user, view>>
    /\ handled' = [done |-> TRUE, served |-> loginCalls[k].served,
                   matched |-> loginCalls[k].matched,
                   status |-> loginCalls[k].resp.status,
                   kept |-> (user' = user /\ view' = view),
                   stale |-> loginCalls[k].signedOut]
    /\ UNCHANGED regToken
    /\ UNCHANGED <<serverVars, uploadVars, catalogVars, restVars>>

\* the main layout, with its header and drawer, is what every view but
\* 'login' and 'register' renders
MainLayout == view \notin {"login", "register"}

IsAdmin == user # NoBody /\ user.isAdmin

\* the sign-out buttons of the header and of the drawer
SignOut ==
    /\ MainLayout
    /\ user' = NoBody
    /\ view' = "login"
    /\ loginCalls' = [k \in 1..MaxLoginCalls |->
                        IF loginCalls[k].pc = "idle" THEN loginCalls[k]
                        ELSE [loginCalls[k] EXCEPT !.signedOut = TRUE]]
    /\ UNCHANGED <<regToken, lastToast, handled>>
    /\ UNCHANGED <<serverVars, uploadVars, catalogVars, restVars>>

\* header button: Admin Panel / Exit Admin
ToggleAdmin ==
    /\ MainLayout
    /\ IsAdmin
    /\ view' = IF view = "admin" THEN "library" ELSE "admin"
    /\ UNCHANGED <<user, regToken, loginCalls, lastToast, handled>>
    /\ UNCHANGED <<serverVars, uploadVars, catalogVars, restVars>>

\* drawer button: Library
NavLibrary ==
    /\ MainLayout
    /\ view' = "library"
    /\ UNCHANGED <<user, regToken, loginCalls, lastToast, handled>>
    /\ UNCHANGED <<serverVars, uploadVars, catalogVars, restVars>>

NavAdminUnguarded ==
    /\ MainLayout
    /\ view' = "admin"
    /\ UNCHANGED <<user, regToken, loginCalls, lastToast, handled>>
    /\ UNCHANGED <<serverVars, uploadVars, catalogVars, restVars>>

\* drawer button: Admin Panel
NavAdmin ==
    /\ MainLayout
    /\ IsAdmin
    /\ view' = "admin"
    /\ UNCHANGED <<user, regToken, loginCalls, lastToast, handled>>
    /\ UNCHANGED <<serverVars, uploadVars, catalogVars, restVars>>

\* register view: Already have an account? Sign In
RegisterSignIn ==
    /\ view = "register"
    /\ view' = "login"
    /\ UNCHANGED <<user, regToken, loginCalls, lastToast, handled>>
    /\ UNCHANGED <<serverVars, uploadVars, catalogVars, restVars>>

----------------------------------------------------------------------------
(* Client: handleRegister (src/src/App.tsx); its i-th invocation sends the *)
(* i-th register request, reg[i]                                           *)

IdleRegCall == [pc |-> "idle", email |-> "", password |-> "", name |-> "",
                token |-> 0]

RegisterFrame ==
    /\ UNCHANGED <<user, loginCalls, handled, smtp, mail, lastRequest>>
    /\ UNCHANGED <<uploadVars, catalogVars, adminVars, libraryVars>>

\* handleRegister up to its await fetch('/api/auth/register'): the form of
\* the register view is submitted, the body carries regToken
HandleRegister(i, e, p, n) ==
    /\ view = "register"
    /\ regCalls[i].pc = "idle"
    /\ \A j \in 1..(i - 1) : regCalls[j].pc # "idle"
    /\ regCalls' = [regCalls EXCEPT ![i] =
           [pc |-> "sent", email |-> e, password |-> p, name |-> n,
            token |-> regToken]]
    /\ UNCHANGED <<view, regToken, lastToast>>
    /\ UNCHANGED serverVars
    /\ RegisterFrame

\* the request of the invocation arrives at POST /api/auth/register
RegisterArrives(i) ==
    /\ regCalls[i].pc = "sent"
    /\ Register(i, regCalls[i].email, regCalls[i].password, regCalls[i].name,
                regCalls[i].token)

\* the request does not reach the handler: fetch rejects (status 0), or
\* the host answers 404 with a body that is not JSON
RegisterUnreached(i, kind) ==
    /\ regCalls[i].pc = "sent"
    /\ reg[i].pc = "idle"
    /\ \A j \in 1..(i - 1) : reg[j].pc # "idle"
    /\ reg' = [reg EXCEPT ![i] =
           RegDone(IdleReg, IF kind = "reject" THEN 0 ELSE 404, "")]
    /\ UNCHANGED <<configured, tzShift, now, users, links, nextUser, nextLink,
                   lastLogin, appr, approvals, tokenUses>>
    /\ UNCHANGED <<clientVars, uploadVars, catalogVars, restVars>>

ViewAfterRegisterReopens(ok, before) == IF ok THEN "login" ELSE "register"

\* if (res.ok) { ... setView('login'); ... }
ViewAfterRegister(ok, before) == IF ok THEN "login" ELSE before

\* handleRegister after its await: the response, or the rejection, arrives
RegisterResponse(i) ==
    /\ regCalls[i].pc = "sent"
    /\ reg[i].pc = "done"
    /\ regCalls' = [regCalls EXCEPT ![i].pc = "closed"]
    /\ LET json == reg[i].status \notin {0, 404}
           ok == json /\ reg[i].status >= 200 /\ reg[i].status <= 299
       IN /\ view' = ViewAfterRegister(ok, view)
          /\ regToken' = IF ok THEN 0 ELSE regToken
          /\ lastToast' =
                IF ok THEN Toast("Registration successful", "success")
                ELSE IF json THEN Toast(reg[i].error, "error")
                ELSE Toast("Registration failed", "error")
    /\ UNCHANGED serverVars
    /\ RegisterFrame

----------------------------------------------------------------------------
(* Client: the add-material form and handleAddBook (src/src/App.tsx) *)

\* formData.get of a field the form does not render
Null == "null"

ACADEMIC == "Academic"
CHRISTIAN_NOVEL == "Christian Novel"

\* form.reset() and setFormCategory(BookCategory.ACADEMIC)
BlankForm == [category |-> ACADEMIC, title |-> Null, department |-> "",
              level |-> "", course_code |-> "", course_title |-> "",
              file |-> "none"]

\* the forms the operator can fill in: the Academic form renders the four
\* academic fields, the Christian Novel form the title
FilledForms ==
    {[category |-> ACADEMIC, title |-> Null, department |-> "Computer Science",
      level |-> "100", course_code |-> "CSC101",
      course_title |-> "Intro to CS", file |-> f] : f \in {"pdf", "corrupt"}}
    \cup
    {[category |-> CHRISTIAN_NOVEL, title |-> "The Pilgrim's Progress",
      department |-> Null, level |-> Null, course_code |-> Null,
      course_title |-> Null, file |-> f] : f \in {"pdf", "corrupt"}}

\* every rendered field is required: the browser submits no other form
FormValid(f) == f \in FilledForms

\* what a fetch of handleAddBook ends with: a rejection, or a response with
\* a status and a body that parses as JSON or does not; url is the url of
\* the body, Null where the body has none
NoRes == [kind |-> "none", status |-> 0, json |-> FALSE, url |-> Null]
Responses ==
    {[kind |-> "reject", status |-> 0, json |-> FALSE, url |-> Null]}
    \cup {[kind |-> "response", status |-> st, json |-> j, url |-> Null] :
             st \in {200, 500}, j \in BOOLEAN}

ResOk(res) == res.status >= 200 /\ res.status <= 299

\* the public urls the object store hands out
Urls == {"materials/1-book.pdf", "materials/2-thumbnail.jpg"}

\* what a fetch of POST /api/admin/upload ends with: res.json({ url:
\* publicUrl }) is the one 2xx JSON answer of the route
UploadResponses ==
    {r \in Responses : ~(r.json /\ ResOk(r))}
    \cup {[kind |-> "response", status |-> 200, json |-> TRUE, url |-> u] :
             u \in Urls}

\* a 2xx JSON answer of a route is sent after getSupabase() and the store
\* call succeeded; every other result can come about in any configuration
Answered(res) == res.kind = "response" /\ res.json /\ ResOk(res)

Answerable(res) == Answered(res) => configured

\* the body of POST /api/admin/books before handleAddBook builds it
NoRecord == [absent |-> TRUE]

BookDataSwapsUrls(data, thumbUrl, pdfUrl) ==
    [title |-> IF data.category = ACADEMIC THEN data.course_title
               ELSE data.title,
     author |-> "DLCF Library",
     category |-> data.category,
     cover_url |-> pdfUrl,
     download_url |-> thumbUrl,
     department |-> data.department,
     level |-> data.level,
     course_code |-> data.course_code,
     course_title |-> data.course_title]

\* const bookData = { title, author: 'DLCF Library', category, ... }
BookData(data, thumbUrl, pdfUrl) ==
    [title |-> IF data.category = ACADEMIC THEN data.course_title
               ELSE data.title,
     author |-> "DLCF Library",
     category |-> data.category,
     cover_url |-> thumbUrl,
     download_url |-> pdfUrl,
     department |-> data.department,
     level |-> data.level,
     course_code |-> data.course_code,
     course_title |-> data.course_title]

\* POST /api/admin/books: const bookData = { ...req.body, id: uuidv4() }
BookRow(body, id) ==
    [id |-> id, title |-> body.title, author |-> body.author,
     category |-> body.category, cover_url |-> body.cover_url,
     download_url |-> body.download_url, department |-> body.department,
     level |-> body.level, course_code |-> body.course_code,
     course_title |-> body.course_title]

IdleUp == [pc |-> "idle", loading |-> FALSE, progress |-> Null,
           data |-> BlankForm, calls |-> <<>>, thumb |-> "none",
           record |-> NoRecord, pdfRes |-> NoRes, thumbRes |-> NoRes, saveRes |-> NoRes,
           toast |-> NoToast, errorToasts |-> 0, successToasts |-> 0,
           resets |-> 0, formBefore |-> BlankForm, formAfter |-> BlankForm]

\* the operator fills in the form
FillForm(f) ==
    /\ view = "admin"
    /\ f \in FilledForms
    /\ form # f
    /\ form' = f
    /\ UNCHANGED up
    /\ UNCHANGED <<serverVars, clientVars, catalogVars, restVars>>

\* catch (err) { showToast(err.message, 'error') } finally { ... }
Failed(u, message) ==
    [u EXCEPT !.pc = "done", !.loading = FALSE, !.progress = Null,
              !.toast = Toast(message, "error"), !.errorToasts = @ + 1,
              !.formBefore = form, !.formAfter = form]

\* handleAddBook up to the first await: the form is submitted
HandleAddBook ==
    /\ view = "admin"
    /\ up.pc \in {"idle", "done"}
    /\ ~up.loading
    /\ FormValid(form)
    /\ Len(catalog) < MaxBooks
    /\ up' = IF form.file = "none"
             THEN [IdleUp EXCEPT !.pc = "done", !.data = form,
                       !.toast = Toast("Please select a PDF file", "error"),
                       !.errorToasts = 1,
                       !.formBefore = form, !.formAfter = form]
             ELSE [IdleUp EXCEPT !.pc = "thumbnail", !.data = form,
                       !.loading = TRUE,
                       !.progress = "Generating thumbnail..."]
    /\ UNCHANGED form
    /\ UNCHANGED <<serverVars, clientVars, catalogVars, restVars>>

\* what rendering the first page can end with: a JPEG blob, an exception
\* of pdf.js, or no blob from canvas.toBlob
ThumbnailOutcomes(file) ==
    IF file = "pdf" THEN {"blob", "throw", "null"} ELSE {"throw"}

\* 1. Generate Thumbnail from PDF; on success the PDF upload is issued
Thumbnail(outcome) ==
    /\ up.pc = "thumbnail"
    /\ outcome \in ThumbnailOutcomes(up.data.file)
    /\ LET u == [up EXCEPT !.thumb = outcome]
       IN up' = IF outcome = "throw" THEN Failed(u, "pdf.js error")
                ELSE IF outcome = "null"
                THEN Failed(u, "Failed to generate thumbnail")
                ELSE [u EXCEPT !.pc = "pdf", !.progress = "Uploading PDF...",
                               !.calls = Append(@, "upload_pdf")]
    /\ UNCHANGED form
    /\ UNCHANGED <<serverVars, clientVars, catalogVars, restVars>>

\* the error an upload's result makes handleAddBook throw, "" if none
UploadErrorIgnoresStatus(res, what) ==
    IF res.kind = "reject" THEN "Failed to fetch"
    ELSE IF ~res.json THEN "Server returned non-JSON response"
    ELSE ""

UploadError(res, what) ==
    IF res.kind = "reject" THEN "Failed to fetch"
    ELSE IF ~res.json THEN "Server returned non-JSON response"
    ELSE IF ~ResOk(res) THEN what
    ELSE ""

\* 2. Upload PDF: the result arrives; on success the thumbnail upload is issued
PdfUpload(res) ==
    /\ up.pc = "pdf"
    /\ res \in UploadResponses
    /\ Answerable(res)
    /\ LET u == [up EXCEPT !.pdfRes = res]
       IN up' = IF UploadError(res, "PDF upload failed") # ""
                THEN Failed(u, UploadError(res, "PDF upload failed"))
                ELSE [u EXCEPT !.pc = "thumb",
                               !.progress = "Uploading thumbnail...",
                               !.calls = Append(@, "upload_thumb")]
    /\ UNCHANGED form
    /\ UNCHANGED <<serverVars, clientVars, catalogVars, restVars>>

\* 3. Upload Thumbnail: the result arrives; on success the record is posted
ThumbUpload(res) ==
    /\ up.pc = "thumb"
    /\ res \in UploadResponses
    /\ Answerable(res)
    /\ LET u == [up EXCEPT !.thumbRes = res]
       IN up' = IF UploadError(res, "Thumbnail upload failed") # ""
                THEN Failed(u, UploadError(res, "Thumbnail upload failed"))
                ELSE [u EXCEPT !.pc = "save", !.progress = "Saving record...",
                               !.record = BookData(u.data, res.url,
                                                   u.pdfRes.url),
                               !.calls = Append(@, "books")]
    /\ UNCHANGED form
    /\ UNCHANGED <<serverVars, clientVars, catalogVars, restVars>>

\* 4. Save Book Record: POST /api/admin/books inserts the row and answers
\* with it, or fails; the result arrives.  A request whose answer is lost
\* on the way back may have inserted its row.  The fetchAdminData() of the
\* success branch is not awaited and writes nothing of handleAddBook's state.
SaveRecordAlwaysResets(res) ==
    /\ up.pc = "save"
    /\ res \in Responses
    /\ form' = BlankForm
    /\ up' = [Failed([up EXCEPT !.saveRes = res], "Failed to add book")
                 EXCEPT !.resets = @ + 1, !.formAfter = BlankForm]
    /\ UNCHANGED <<serverVars, clientVars, catalogVars, restVars>>

SaveRecord(res) ==
    /\ up.pc = "save"
    /\ res \in Responses
    /\ Answerable(res)
    /\ \E stored \in BOOLEAN :
          /\ stored = TRUE => Answered(res) \/ (res.kind = "reject" /\ configured)
          /\ stored = FALSE => ~Answered(res)
          /\ IF stored
             THEN /\ catalog' = Append(catalog, BookRow(up.record, nextBook))
                  /\ nextBook' = nextBook + 1
             ELSE UNCHANGED catalogVars
    /\ LET u == [up EXCEPT !.saveRes = res]
       IN IF res.kind = "reject"
          THEN up' = Failed(u, "Failed to fetch") /\ UNCHANGED form
          ELSE IF ~res.json
          THEN /\ up' = Failed(u, "Server returned non-JSON response")
               /\ UNCHANGED form
          ELSE IF ResOk(res)
          THEN /\ form' = BlankForm
               /\ up' = [u EXCEPT !.pc = "done", !.loading = FALSE,
                             !.progress = Null,
                             !.toast = Toast("Book added successfully!", "success"),
                             !.successToasts = @ + 1, !.resets = @ + 1,
                             !.formBefore = form, !.formAfter = BlankForm]
          ELSE up' = Failed(u, "Failed to add book") /\ UNCHANGED form
    /\ UNCHANGED <<serverVars, clientVars, restVars>>

----------------------------------------------------------------------------
(* Client: the admin panel's lists and their fetch (src/src/App.tsx),     *)
(* with the routes that serve them (src/server.ts)                         *)

\* a value JavaScript reads as undefined
Undefined == "undefined"

\* a || b
Or(a, b) == IF a \in {Null, Undefined, ""} THEN b ELSE a

\* the rows of S as a list in the order of key: the ids and the hours of
\* this model are the order in which the rows were inserted
RECURSIVE Sorted(_, _)
Sorted(S, key) ==
    IF S = {} THEN <<>>
    ELSE LET first == CHOOSE x \in S : \A y \in S : key[x] <= key[y]
         IN <<first>> \o Sorted(S \ {first}, key)

Reverse(q) == [i \in 1..Len(q) |-> q[Len(q) + 1 - i]]

\* GET /api/admin/pending-users: select('id, email, name') of the rows
\* that are neither approved nor admin
PendingRows ==
    {[id |-> u.id, email |-> u.email, name |-> u.name] :
        u \in {v \in users : ~v.is_approved /\ ~v.is_admin}}

\* GET /api/admin/links: order('created_at', { ascending: false })
LinksNewestFirst == Reverse(Sorted(links, [l \in links |-> l.created_at]))

\* the bodies the three routes of fetchAdminData answer with: pending
\* users, links, and GET /api/books (newest first)
Payloads(j) ==
    CASE j = 1 -> {Sorted(PendingRows, [u \in PendingRows |-> u.id])}
      [] j = 2 -> {LinksNewestFirst}
      [] j = 3 -> {Reverse(catalog)}

\* booksData.map((b) => ({ ...b, coverUrl: b.cover_url || b.coverUrl, ... }))
NormalizeBook(b) ==
    [id |-> b.id, title |-> b.title, author |-> b.author,
     category |-> b.category, cover_url |-> b.cover_url,
     download_url |-> b.download_url, department |-> b.department,
     level |-> b.level, course_code |-> b.course_code,
     course_title |-> b.course_title,
     coverUrl |-> Or(b.cover_url, Undefined),
     downloadUrl |-> Or(b.download_url, Undefined),
     courseCode |-> Or(b.course_code, Undefined),
     courseTitle |-> Or(b.course_title, Undefined)]

NormalizeBooks(q) == [i \in 1..Len(q) |-> NormalizeBook(q[i])]

\* the result of one fetch: none yet, a 2xx answer with its body, a
\* non-2xx answer, or a rejection
NoFetchRes == [kind |-> "none", body |-> <<>>]

IdleFetch == [pc |-> "idle", stage |-> 0,
              res |-> <<NoFetchRes, NoFetchRes, NoFetchRes>>,
              committed |-> <<FALSE, FALSE, FALSE>>]

\* history: failed, a result is not ok; lost, a result that is ok was not
\* committed
NoFetchDone == [done |-> FALSE, failed |-> FALSE, lost |-> FALSE]

FetchSlots == 1..MaxFetches
OpSlots == 1..MaxOps

OpInFlight == \E k \in OpSlots : ops[k].pc # "idle"
FetchInFlight == \E f \in FetchSlots : fetches[f].pc # "idle"

\* history: an operation starts, so no invocation in flight is alone
NotAlone(o) == IF o.pc # "idle" THEN [o EXCEPT !.alone = FALSE] ELSE o

\* fetchAdminData up to await Promise.all([...]): called by the effect of
\* entering the admin view, by generateLink and by handleAddBook
fetchAdminData(f) ==
    /\ view = "admin"
    /\ fetches[f].pc = "idle"
    /\ \A g \in 1..(f - 1) : fetches[g].pc # "idle"
    /\ fetches' = [fetches EXCEPT ![f] = [IdleFetch EXCEPT !.pc = "wait"]]
    /\ ops' = [k \in OpSlots |-> NotAlone(ops[k])]
    /\ UNCHANGED <<pendingUsers, adminLinks, books, lastOp, lastFetch>>
    /\ UNCHANGED <<serverVars, clientVars, uploadVars, catalogVars, libraryVars,
                   moreVars>>

\* the next of usersRes, linksRes, booksRes after the j-th that is ok, 0
\* if none: the results that are not ok are passed over without an await
NextOk(res, j) ==
    IF \E i \in (j + 1)..3 : res[i].kind = "ok"
    THEN CHOOSE i \in (j + 1)..3 :
            /\ res[i].kind = "ok"
            /\ \A h \in (j + 1)..(i - 1) : res[h].kind # "ok"
    ELSE 0

\* the invocation ends: its slot is free again
FetchEnds(r) ==
    /\ lastFetch' = [done |-> TRUE,
                     failed |-> \E j \in 1..3 : r.res[j].kind # "ok",
                     lost |-> \E j \in 1..3 :
                                 r.res[j].kind = "ok" /\ ~r.committed[j]]

\* Promise.all: rejected with the first rejection, fulfilled when all three
\* are; then the invocation runs up to its next await of a body
Settle(f, r) ==
    IF \E j \in 1..3 : r.res[j].kind = "reject"
    THEN /\ fetches' = [fetches EXCEPT ![f] = IdleFetch]
         /\ FetchEnds(r)
    ELSE IF \E j \in 1..3 : r.res[j].kind = "none"
    THEN /\ fetches' = [fetches EXCEPT ![f] = r]
         /\ UNCHANGED lastFetch
    ELSE IF NextOk(r.res, 0) = 0
    THEN /\ fetches' = [fetches EXCEPT ![f] = IdleFetch]
         /\ FetchEnds(r)
    ELSE /\ fetches' = [fetches EXCEPT ![f] =
                [r EXCEPT !.pc = "commit", !.stage = NextOk(r.res, 0)]]
         /\ UNCHANGED lastFetch

\* a route serves the j-th request of the invocation and the answer arrives
FetchServe(f, j, body) ==
    /\ fetches[f].pc = "wait"
    /\ fetches[f].res[j].kind = "none"
    /\ body \in Payloads(j)
    /\ Settle(f, [fetches[f] EXCEPT !.res[j] =
                    IF configured THEN [kind |-> "ok", body |-> body]
                    ELSE [kind |-> "error", body |-> <<>>]])
    /\ UNCHANGED <<pendingUsers, adminLinks, books, ops, lastOp>>
    /\ UNCHANGED <<serverVars, clientVars, uploadVars, catalogVars, libraryVars,
                   moreVars>>

\* the j-th request does not reach its route: fetch rejects, or the host
\* answers non-2xx
FetchUnreached(f, j, kind) ==
    /\ fetches[f].pc = "wait"
    /\ fetches[f].res[j].kind = "none"
    /\ kind \in {"reject", "error"}
    /\ Settle(f, [fetches[f] EXCEPT !.res[j] = [kind |-> kind, body |-> <<>>]])
    /\ UNCHANGED <<pendingUsers, adminLinks, books, ops, lastOp>>
    /\ UNCHANGED <<serverVars, clientVars, uploadVars, catalogVars, libraryVars,
                   moreVars>>

\* setPendingUsers(await usersRes.json()), setAdminLinks(await
\* linksRes.json()), setBooks(booksData.map(...)): the body of the next ok
\* result is read and committed
FetchCommit(f) ==
    /\ fetches[f].pc = "commit"
    /\ LET r == fetches[f]
           j == r.stage
           done == [r EXCEPT !.committed[j] = TRUE]
       IN /\ pendingUsers' = IF j = 1 THEN r.res[1].body ELSE pendingUsers
          /\ adminLinks' = IF j = 2 THEN r.res[2].body ELSE adminLinks
          /\ books' = IF j = 3 THEN NormalizeBooks(r.res[3].body) ELSE books
          /\ IF NextOk(r.res, j) = 0
             THEN /\ fetches' = [fetches EXCEPT ![f] = IdleFetch]
                  /\ FetchEnds(done)
             ELSE /\ fetches' = [fetches EXCEPT ![f] =
                         [done EXCEPT !.stage = NextOk(r.res, j)]]
                  /\ UNCHANGED lastFetch
    /\ UNCHANGED <<ops, lastOp>>
    /\ UNCHANGED <<serverVars, clientVars, uploadVars, catalogVars, libraryVars,
                   moreVars>>

\* approveUser, deleteLink and deleteBook: optimistic removals

IdleOp == [pc |-> "idle", kind |-> "", id |-> 0, previous |-> <<>>,
           alone |-> FALSE, status |-> 0]

\* history: restored, the list after the invocation is its snapshot;
\* removed, it is the list as the removal left it
NoOpDone == [done |-> FALSE, alone |-> FALSE, ok |-> FALSE,
             restored |-> FALSE, removed |-> FALSE]

\* the list an operation works on
ListOf(kind) ==
    CASE kind = "approve" -> pendingUsers
      [] kind = "link" -> adminLinks
      [] kind = "book" -> books

Ids(list) == {list[i].id : i \in 1..Len(list)}

\* prev.filter(x => x.id !== id)
Without(list, id) == SelectSeq(list, LAMBDA x : x.id # id)

\* the invocation up to its await fetch(...): the snapshot is taken, the
\* item is filtered out of the list and the request is sent
StartOp(k, kind, id) ==
    /\ view = "admin"
    /\ ops[k].pc = "idle"
    /\ \A j \in 1..(k - 1) : ops[j].pc # "idle"
    /\ id \in Ids(ListOf(kind))
    /\ ops' = [j \in OpSlots |->
          IF j = k
          THEN [pc |-> "sent", kind |-> kind, id |-> id,
                previous |-> ListOf(kind),
                alone |-> ~OpInFlight /\ ~FetchInFlight, status |-> 0]
          ELSE NotAlone(ops[j])]
    /\ UNCHANGED <<fetches, lastOp, lastFetch>>
    /\ UNCHANGED <<serverVars, clientVars, uploadVars, catalogVars, libraryVars,
                   moreVars>>

\* the Approve button of a pending user
approveUser(k, id) ==
    /\ StartOp(k, "approve", id)
    /\ pendingUsers' = Without(pendingUsers, id)
    /\ UNCHANGED <<adminLinks, books>>

\* the Revoke button of a link, the confirm() answered with OK
deleteLink(k, id) ==
    /\ StartOp(k, "link", id)
    /\ adminLinks' = Without(adminLinks, id)
    /\ UNCHANGED <<pendingUsers, books>>

\* the Delete button of a book, the confirm() answered with OK
deleteBook(k, id) ==
    /\ StartOp(k, "book", id)
    /\ books' = Without(books, id)
    /\ UNCHANGED <<pendingUsers, adminLinks>>

\* the route serves the request: POST /api/admin/approve-user (its select
\* and its update), DELETE /api/admin/links/:id, DELETE /api/admin/books/:id
OpServe(k) ==
    /\ ops[k].pc = "sent"
    /\ LET o == ops[k]
           refused == ~configured \/ (o.kind = "approve" /\ o.id \notin UserIds)
       IN /\ ops' = [ops EXCEPT ![k] =
                 [o EXCEPT !.pc = "answered",
                           !.status = IF refused THEN 500 ELSE 200]]
          /\ users' = IF ~refused /\ o.kind = "approve"
                      THEN {IF u.id = o.id THEN [u EXCEPT !.is_approved = TRUE]
                            ELSE u : u \in users}
                      ELSE users
          /\ approvals' = IF ~refused /\ o.kind = "approve"
                          THEN approvals \cup {o.id} ELSE approvals
          /\ links' = IF ~refused /\ o.kind = "link"
                      THEN {l \in links : l.id # o.id} ELSE links
          /\ catalog' = IF ~refused /\ o.kind = "book"
                        THEN Without(catalog, o.id) ELSE catalog
          /\ mail' = IF ~refused /\ o.kind = "approve"
                     THEN SendApprovalEmail(mail, o.id) ELSE mail
    /\ UNCHANGED <<configured, tzShift, now, nextUser, nextLink, reg,
                   lastLogin, appr, tokenUses, nextBook>>
    /\ UNCHANGED <<pendingUsers, adminLinks, books, fetches, lastOp, lastFetch>>
    /\ UNCHANGED <<clientVars, uploadVars, libraryVars, regCalls, smtp,
                   lastRequest>>

\* the request does not reach its route: fetch rejects, or the host
\* answers non-2xx
OpUnreached(k, kind) ==
    /\ ops[k].pc = "sent"
    /\ kind \in {"reject", "error"}
    /\ ops' = [ops EXCEPT ![k] =
           IF kind = "reject" THEN [@ EXCEPT !.pc = "failed"]
           ELSE [@ EXCEPT !.pc = "answered", !.status = 404]]
    /\ UNCHANGED <<pendingUsers, adminLinks, books, fetches, lastOp, lastFetch>>
    /\ UNCHANGED <<serverVars, clientVars, uploadVars, catalogVars, libraryVars,
                   moreVars>>

\* the message of the invocation's toast
OpToast(kind, ok, rejected) ==
    CASE ok /\ kind = "approve" -> Toast("User approved successfully", "success")
      [] ok /\ kind = "link" -> Toast("Link revoked successfully", "success")
      [] ok /\ kind = "book" -> Toast("Book deleted successfully", "success")
      [] ~ok /\ rejected -> Toast("Failed to fetch", "error")
      [] ~ok /\ ~rejected /\ kind = "approve" ->
            Toast("Failed to approve user", "error")
      [] ~ok /\ ~rejected /\ kind = "link" ->
            Toast("Failed to delete link", "error")
      [] ~ok /\ ~rejected /\ kind = "book" ->
            Toast("Failed to delete book", "error")

\* the list after the invocation's await: as it is when res.ok, the
\* snapshot when not (throw, or the rejection; catch: Rollback)
AfterOpRestoresAtEnd(o, ok) ==
    IF ok THEN ListOf(o.kind)
    ELSE Without(ListOf(o.kind), o.id)
         \o SelectSeq(o.previous, LAMBDA x : x.id = o.id)

AfterOp(o, ok) == IF ok THEN ListOf(o.kind) ELSE o.previous

\* the invocation after its await: the response, or the rejection, arrives
OpResponse(k) ==
    /\ ops[k].pc \in {"answered", "failed"}
    /\ LET o == ops[k]
           ok == o.pc = "answered" /\ o.status >= 200 /\ o.status <= 299
       IN /\ pendingUsers' = IF o.kind = "approve" THEN AfterOp(o, ok)
                             ELSE pendingUsers
          /\ adminLinks' = IF o.kind = "link" THEN AfterOp(o, ok)
                           ELSE adminLinks
          /\ books' = IF o.kind = "book" THEN AfterOp(o, ok) ELSE books
          /\ lastToast' = OpToast(o.kind, ok, o.pc = "failed")
          /\ LET after == CASE o.kind = "approve" -> pendingUsers'
                             [] o.kind = "link" -> adminLinks'
                             [] o.kind = "book" -> books'
             IN lastOp' = [done |-> TRUE, alone |-> o.alone, ok |-> ok,
                           restored |-> after = o.previous,
                           removed |-> after = Without(o.previous, o.id)]
    /\ ops' = [ops EXCEPT ![k] = IdleOp]
    /\ UNCHANGED <<fetches, lastFetch>>
    /\ UNCHANGED <<user, view, regToken, loginCalls, handled>>
    /\ UNCHANGED <<serverVars, uploadVars, catalogVars, libraryVars,
                   moreVars>>

----------------------------------------------------------------------------
(* Client: the library's books, their fetch and their filter               *)
(* (src/src/App.tsx)                                                       *)

\* the UTF-16 code units of the strings of this model
Chars(s) ==
    CASE s = "" ->
            <<>>
      [] s = "Intro to CS" ->
            <<"I", "n", "t", "r", "o", " ", "t", "o", " ", "C", "S">>
      [] s = "CSC101" ->
            <<"C", "S", "C", "1", "0", "1">>
      [] s = "DLCF Library" ->
            <<"D", "L", "C", "F", " ", "L", "i", "b", "r", "a", "r",
            "y">>
      [] s = "The Pilgrim's Progress" ->
            <<"T", "h", "e", " ", "P", "i", "l", "g", "r", "i", "m",
            "'", "s", " ", "P", "r", "o", "g", "r", "e", "s", "s">>
      [] s = "Data Structures" ->
            <<"D", "a", "t", "a", " ", "S", "t", "r", "u", "c", "t",
            "u", "r", "e", "s">>
      [] s = "CSC201" ->
            <<"C", "S", "C", "2", "0", "1">>
      [] s = "Mere Christianity" ->
            <<"M", "e", "r", "e", " ", "C", "h", "r", "i", "s", "t",
            "i", "a", "n", "i", "t", "y">>
      [] s = "C. S. Lewis" ->
            <<"C", ".", " ", "S", ".", " ", "L", "e", "w", "i", "s">>
      [] s = "csc" ->
            <<"c", "s", "c">>
      [] s = "CS" ->
            <<"C", "S">>
      [] s = "zz" ->
            <<"z", "z">>
      [] s = "SUPABASE_URL" ->
            <<"S", "U", "P", "A", "B", "A", "S", "E", "_", "U", "R",
            "L">>
      [] s = "SUPABASE_URL and SUPABASE_ANON_KEY are required" ->
            <<"S", "U", "P", "A", "B", "A", "S", "E", "_", "U", "R",
            "L", " ", "a", "n", "d", " ", "S", "U", "P", "A", "B", "A",
            "S", "E", "_", "A", "N", "O", "N", "_", "K", "E", "Y", " ",
            "a", "r", "e", " ", "r", "e", "q", "u", "i", "r", "e", "d">>

UpperCase == <<"A", "B", "C", "D", "E", "F", "G", "H", "I", "J", "K", "L", "M",
               "N", "O", "P", "Q", "R", "S", "T", "U", "V", "W", "X", "Y", "Z">>
LowerCase == <<"a", "b", "c", "d", "e", "f", "g", "h", "i", "j", "k", "l", "m",
               "n", "o", "p", "q", "r", "s", "t", "u", "v", "w", "x", "y", "z">>

\* String.prototype.toLowerCase
ToLowerCase(t) ==
    [i \in 1..Len(t) |->
        IF \E n \in 1..26 : UpperCase[n] = t[i]
        THEN LowerCase[CHOOSE n \in 1..26 : UpperCase[n] = t[i]]
        ELSE t[i]]

\* String.prototype.includes
Includes(t, sub) ==
    \E i \in 0..(Len(t) - Len(sub)) :
        \A j \in 1..Len(sub) : t[i + j] = sub[j]

\* the bundled demo catalog of src/constants.ts
INITIAL_BOOKS ==
    <<[id |-> -1, title |-> "Data Structures", author |-> "DLCF Library",
       category |-> ACADEMIC, cover_url |-> Undefined,
       download_url |-> Undefined, department |-> "Computer Science",
       level |-> "200", course_code |-> Undefined,
       course_title |-> Undefined, coverUrl |-> "demo/1.jpg",
       downloadUrl |-> "demo/1.pdf", courseCode |-> "CSC201",
       courseTitle |-> "Data Structures"],
      [id |-> -2, title |-> "Mere Christianity", author |-> "C. S. Lewis",
       category |-> CHRISTIAN_NOVEL, cover_url |-> Undefined,
       download_url |-> Undefined, department |-> Undefined,
       level |-> Undefined, course_code |-> Undefined,
       course_title |-> Undefined, coverUrl |-> "demo/2.jpg",
       downloadUrl |-> "demo/2.pdf", courseCode |-> Undefined,
       courseTitle |-> Undefined]>>

\* useState<FilterState>({ search: '', category: BookCategory.ACADEMIC, ... })
DefaultFilters == [search |-> "", category |-> ACADEMIC,
                   department |-> "All", level |-> "All"]

\* text.toLowerCase().includes(filters.search.toLowerCase())
LowerIncludesExactCase(text, search) == Includes(Chars(text), Chars(search))

LowerIncludes(text, search) ==
    Includes(ToLowerCase(Chars(text)), ToLowerCase(Chars(search)))

\* book.courseCode?.toLowerCase().includes(...): undefined, which is
\* falsy, when the field is null or undefined
OptLowerIncludes(text, search) ==
    text \notin {Null, Undefined} /\ LowerIncludes(text, search)

matchesSearch(book, f) ==
    \/ LowerIncludes(book.title, f.search)
    \/ LowerIncludes(book.author, f.search)
    \/ OptLowerIncludes(book.courseCode, f.search)
    \/ OptLowerIncludes(book.courseTitle, f.search)

matchesCategory(book, f) == book.category = f.category

matchesDept(book, f) ==
    \/ f.department = "All"
    \/ (book.category = ACADEMIC /\ book.department = f.department)

matchesLevel(book, f) ==
    \/ f.level = "All"
    \/ (book.category = ACADEMIC /\ book.level = f.level)

FilterBooksAnyOf(list, f) ==
    SelectSeq(list, LAMBDA book :
        /\ matchesSearch(book, f)
        /\ matchesCategory(book, f)
        /\ (matchesDept(book, f) \/ matchesLevel(book, f)))

\* books.filter((book) => matchesSearch && matchesCategory && matchesDept
\* && matchesLevel)
FilterBooks(list, f) ==
    SelectSeq(list, LAMBDA book :
        /\ matchesSearch(book, f)
        /\ matchesCategory(book, f)
        /\ matchesDept(book, f)
        /\ matchesLevel(book, f))

\* useMemo(..., [books, filters])
filteredBooks == FilterBooks(books, filters)

\* what the select and the buttons of the filter offer: 'All', and the
\* DEPARTMENTS and LEVELS of src/constants.ts
DepartmentOptions == {"All", "Computer Science", "Mathematics"}
LevelOptions == {"All", "100", "200"}

\* what is typed into the search input
SearchTexts == {"", "csc", "CS", "zz"}

LibraryView == user # NoBody /\ view = "library"

LibraryFrame ==
    /\ UNCHANGED <<dbError, booksFetch>>
    /\ UNCHANGED <<serverVars, clientVars, uploadVars, catalogVars, adminVars,
                   moreVars>>

\* search input: setFilters({ ...filters, search: e.target.value })
SetSearch(text) ==
    /\ LibraryView
    /\ filters' = [filters EXCEPT !.search = text]
    /\ LibraryFrame

\* section buttons of the header and of the mobile filter sheet
SetCategory(c) ==
    /\ LibraryView
    /\ c \in {ACADEMIC, CHRISTIAN_NOVEL}
    /\ filters' = [filters EXCEPT !.category = c]
    /\ LibraryFrame

\* department select, rendered unless the category is Christian Novel
SetDepartment(d) ==
    /\ LibraryView
    /\ filters.category # CHRISTIAN_NOVEL
    /\ filters' = [filters EXCEPT !.department = d]
    /\ LibraryFrame

\* level buttons, rendered unless the category is Christian Novel
SetLevel(l) ==
    /\ LibraryView
    /\ filters.category # CHRISTIAN_NOVEL
    /\ filters' = [filters EXCEPT !.level = l]
    /\ LibraryFrame

\* button Clear all filters, rendered when no book is listed
ClearFilters ==
    /\ LibraryView
    /\ Len(filteredBooks) = 0
    /\ filters' = [search |-> "", category |-> "All", department |-> "All",
                   level |-> "All"]
    /\ LibraryFrame

\* section buttons of the drawer: they also open the library
NavSection(c) ==
    /\ MainLayout
    /\ c \in {ACADEMIC, CHRISTIAN_NOVEL}
    /\ filters' = [filters EXCEPT !.category = c]
    /\ view' = "library"
    /\ UNCHANGED <<dbError, booksFetch>>
    /\ UNCHANGED <<user, regToken, loginCalls, lastToast, handled>>
    /\ UNCHANGED <<serverVars, uploadVars, catalogVars, adminVars, moreVars>>

\* the invocation of fetchBooks by the effect of the page load: idle, sent,
\* answered (res holds what await fetch ends with), done
NoBooksRes == [kind |-> "none", error |-> Undefined, body |-> <<>>]
IdleBooksFetch == [pc |-> "idle", res |-> NoBooksRes]
BooksSent == [pc |-> "sent", res |-> NoBooksRes]

BooksFrame ==
    /\ UNCHANGED <<pendingUsers, adminLinks, ops, fetches, lastOp, lastFetch>>
    /\ UNCHANGED <<serverVars, clientVars, uploadVars, catalogVars, moreVars>>

\* GET /api/books
BooksServe ==
    /\ booksFetch.pc = "sent"
    /\ booksFetch' =
          [pc |-> "answered",
           res |-> IF configured
                   THEN [kind |-> "ok", error |-> Undefined,
                         body |-> Reverse(catalog)]
                   ELSE [kind |-> "error", error |-> ConfigError,
                         body |-> <<>>]]
    /\ UNCHANGED <<books, filters, dbError>>
    /\ BooksFrame

\* the request does not reach the route: fetch rejects, or the host answers
\* non-2xx with a JSON body that has no error member, or with a body that
\* is not JSON
BooksUnreached(kind) ==
    /\ booksFetch.pc = "sent"
    /\ kind \in {"reject", "error", "nojson"}
    /\ booksFetch' = [pc |-> "answered",
                      res |-> [kind |-> kind, error |-> Undefined,
                               body |-> <<>>]]
    /\ UNCHANGED <<books, filters, dbError>>
    /\ BooksFrame

Banner == "Database not configured. Showing demo materials."

\* errorData.error?.includes('SUPABASE_URL')
MentionsUrl(error) ==
    error # Undefined /\ Includes(Chars(error), Chars("SUPABASE_URL"))

\* dbError after fetchBooks has handled what await fetch ended with
DbErrorAfter(res, before) ==
    CASE res.kind = "ok" -> Null
      [] res.kind = "error" -> IF MentionsUrl(res.error) THEN Banner
                               ELSE before
      [] OTHER -> before

BooksAfterKeepsOnReject(res, before) ==
    IF res.kind = "ok" /\ Len(res.body) > 0 THEN NormalizeBooks(res.body)
    ELSE IF res.kind = "reject" THEN before
    ELSE INITIAL_BOOKS

\* books after fetchBooks has handled what await fetch ended with
BooksAfter(res, before) ==
    IF res.kind = "ok" /\ Len(res.body) > 0 THEN NormalizeBooks(res.body)
    ELSE INITIAL_BOOKS

\* fetchBooks from the end of await fetch('/api/books') to its return
BooksResponse ==
    /\ booksFetch.pc = "answered"
    /\ dbError' = DbErrorAfter(booksFetch.res, dbError)
    /\ books' = BooksAfter(booksFetch.res, books)
    /\ booksFetch' = [booksFetch EXCEPT !.pc = "done"]
    /\ UNCHANGED filters
    /\ BooksFrame

----------------------------------------------------------------------------
(* The routes under /api/admin, requested over HTTP by any caller          *)
(* (src/server.ts): a request carries nothing of the session it is sent in *)

\* who sends a request: the client of a logged-in admin, the client of a
\* logged-in member, or anyone who is not logged in
Callers == {"admin", "member", "anonymous"}

NoRequest == [caller |-> "", route |-> "", changed |-> FALSE]

\* request bodies of POST /api/admin/books: what handleAddBook sends for
\* the two forms, and a Christian Novel body with academic members
BookBodies ==
    {BookData(f, "materials/2-thumbnail.jpg", "materials/1-book.pdf") :
        f \in {g \in FilledForms : g.file = "pdf"}}
    \cup
    {[title |-> "The Pilgrim's Progress", author |-> "DLCF Library",
      category |-> CHRISTIAN_NOVEL,
      cover_url |-> "materials/2-thumbnail.jpg",
      download_url |-> "materials/1-book.pdf",
      department |-> "Computer Science", level |-> "100",
      course_code |-> "CSC101", course_title |-> "Intro to CS"]}

AdminRoutes == {"approve-user", "generate-link", "delete-link", "post-book",
                "delete-book"}

\* the users, links and books after the route has served the request
UsersAfter(route, id) ==
    IF route = "approve-user" /\ configured /\ id \in UserIds
    THEN {IF u.id = id THEN [u EXCEPT !.is_approved = TRUE] ELSE u :
             u \in users}
    ELSE users

LinksAfter(route, id) ==
    IF ~configured THEN links
    ELSE IF route = "generate-link"
    THEN links \cup {[id |-> nextLink, token |-> TokenOf(nextLink),
                      expires_at |-> ExpiresAt(now), created_at |-> now]}
    ELSE IF route = "delete-link" THEN {l \in links : l.id # id}
    ELSE links

CatalogAfter(route, id, body) ==
    IF ~configured THEN catalog
    ELSE IF route = "post-book" THEN Append(catalog, BookRow(body, nextBook))
    ELSE IF route = "delete-book" THEN Without(catalog, id)
    ELSE catalog

\* a caller requests a route of /api/admin and the route serves it: no
\* handler reads who the caller is
AdminRequest(c, route, id, body) ==
    /\ c \in Callers
    /\ route \in AdminRoutes
    /\ route = "generate-link" => nextLink <= MaxLinks
    /\ route = "post-book" => nextBook <= MaxBooks
    /\ users' = UsersAfter(route, id)
    /\ approvals' = IF route = "approve-user" /\ configured /\ id \in UserIds
                    THEN approvals \cup {id} ELSE approvals
    /\ mail' = IF route = "approve-user" /\ configured /\ id \in UserIds
               THEN SendApprovalEmail(mail, id) ELSE mail
    /\ links' = LinksAfter(route, id)
    /\ nextLink' = IF links' # links /\ route = "generate-link"
                   THEN nextLink + 1 ELSE nextLink
    /\ catalog' = CatalogAfter(route, id, body)
    /\ nextBook' = IF Len(catalog') > Len(catalog) THEN nextBook + 1
                   ELSE nextBook
    /\ lastRequest' = [caller |-> c, route |-> route,
                       changed |-> \/ users' # users
                                   \/ links' # links
                                   \/ catalog' # catalog]
    /\ UNCHANGED <<configured, tzShift, now, nextUser, reg, lastLogin, appr,
                   tokenUses>>
    /\ UNCHANGED <<clientVars, uploadVars, adminVars, libraryVars, regCalls,
                   smtp>>

----------------------------------------------------------------------------
(* Initial states *)

\* the row the setup script inserts; is_approved defaults to FALSE in the
\* schema, so an admin row need not be approved
SeedAdmin(approved) ==
    [id |-> 1, email |-> AdminEmail, password |-> "admin123",
     name |-> "System Admin", is_approved |-> approved, is_admin |-> TRUE]

ClientIdle ==
    /\ user = NoBody
    /\ view = "login"
    /\ regToken = 0
    /\ loginCalls = [k \in 1..MaxLoginCalls |-> IdleCall]
    /\ lastToast = NoToast
    /\ handled = NoneHandled

UploadIdle ==
    /\ up = IdleUp
    /\ form = BlankForm

\* the admin panel before its first fetch
AdminIdle ==
    /\ pendingUsers = <<>>
    /\ adminLinks = <<>>
    /\ books = <<>>
    /\ ops = [k \in OpSlots |-> IdleOp]
    /\ fetches = [f \in FetchSlots |-> IdleFetch]
    /\ lastOp = NoOpDone
    /\ lastFetch = NoFetchDone

\* no invocation of handleRegister yet
RegisterIdle == regCalls = [i \in 1..MaxReg |-> IdleRegCall]

\* SMTP_HOST is not set: no approval email is ever sent
MailIdle ==
    /\ smtp = FALSE
    /\ mail = NoMail
    /\ lastRequest = NoRequest

\* the library's state before fetchBooks is called
LibraryIdle ==
    /\ filters = DefaultFilters
    /\ dbError = Null
    /\ booksFetch = IdleBooksFetch

\* table books is empty after the setup script
CatalogEmpty ==
    /\ catalog = <<>>
    /\ nextBook = 1

InitServer ==
    /\ configured \in BOOLEAN
    /\ now = 0
    /\ \E a \in BOOLEAN : users = {SeedAdmin(a)}
    /\ links = {}
    /\ nextUser = 2
    /\ nextLink = 1
    /\ reg = [i \in 1..MaxReg |-> IdleReg]
    /\ lastLogin = NoLogin
    /\ appr = IdleAppr
    /\ approvals = {}
    /\ tokenUses = [t \in {BogusToken} \cup {TokenOf(k) : k \in 1..MaxLinks} |-> 0]

----------------------------------------------------------------------------
(* Registration links and registration: the server in any time zone *)

Init ==
    /\ InitServer
    /\ tzShift \in {-1, 0, 1}
    /\ ClientIdle
    /\ UploadIdle
    /\ CatalogEmpty
    /\ AdminIdle
    /\ LibraryIdle
    /\ RegisterIdle
    /\ MailIdle

Next ==
    \/ \E i \in 1..MaxReg, e \in RegEmails, p \in RegPasswords, n \in Names,
          t \in IssuedTokens \cup {BogusToken} : Register(i, e, p, n, t)
    \/ \E i \in 1..MaxReg : RegisterCheck(i)
    \/ \E i \in 1..MaxReg : RegisterInsert(i)
    \/ \E i \in 1..MaxReg : RegisterDelete(i)
    \/ GenerateLink
    \/ \E l \in links : DeleteLink(l.id)
    \/ \E t \in Instants : Tick(t)

Spec == Init /\ [][Next]_vars

----------------------------------------------------------------------------
(* Accounts: registration, approval and login, the clock standing still *)

InitLogin ==
    /\ InitServer
    /\ tzShift = 0
    /\ ClientIdle
    /\ UploadIdle
    /\ CatalogEmpty
    /\ AdminIdle
    /\ LibraryIdle
    /\ RegisterIdle
    /\ MailIdle

NextLogin ==
    \/ \E i \in 1..MaxReg, e \in RegEmails, p \in RegPasswords, n \in Names,
          t \in IssuedTokens \cup {BogusToken} : Register(i, e, p, n, t)
    \/ \E i \in 1..MaxReg : RegisterCheck(i)
    \/ \E i \in 1..MaxReg : RegisterInsert(i)
    \/ \E i \in 1..MaxReg : RegisterDelete(i)
    \/ GenerateLink
    \/ \E e \in Emails, p \in Passwords : Login(e, p)
    \/ \E id \in UserIds \cup {0} : ApproveFetch(id)
    \/ ApproveUpdate

SpecLogin == InitLogin /\ [][NextLogin]_vars

----------------------------------------------------------------------------
(* The client's session against the login handler *)

\* accounts of earlier registrations: one approved, one pending
SeedMembers ==
    {[id |-> 2, email |-> "a@x", password |-> "pw", name |-> "Ann",
      is_approved |-> TRUE, is_admin |-> FALSE],
     [id |-> 3, email |-> "b@x", password |-> "pw", name |-> "Ben",
      is_approved |-> FALSE, is_admin |-> FALSE]}

\* what the login form is submitted with: the credentials of the admin, of
\* the approved and of the pending member, and a wrong password
LoginForms == {<<AdminEmail, "admin123">>, <<"a@x", "pw">>, <<"b@x", "pw">>,
               <<"a@x", "admin123">>}

\* the page is loaded with or without ?token= in its URL
InitClient ==
    /\ configured \in BOOLEAN
    /\ tzShift = 0
    /\ now = 0
    /\ \E a \in BOOLEAN : users = {SeedAdmin(a)} \cup SeedMembers
    /\ links = {}
    /\ nextUser = 4
    /\ nextLink = 1
    /\ reg = [i \in 1..MaxReg |-> IdleReg]
    /\ lastLogin = NoLogin
    /\ appr = IdleAppr
    /\ approvals = {}
    /\ tokenUses = [t \in {BogusToken} \cup {TokenOf(k) : k \in 1..MaxLinks} |-> 0]
    /\ user = NoBody
    /\ \E t \in {0, BogusToken} :
          /\ regToken = t
          /\ view = IF t # 0 THEN "register" ELSE "login"
    /\ loginCalls = [k \in 1..MaxLoginCalls |-> IdleCall]
    /\ lastToast = NoToast
    /\ handled = NoneHandled
    /\ UploadIdle
    /\ CatalogEmpty
    /\ AdminIdle
    /\ LibraryIdle
    /\ RegisterIdle
    /\ MailIdle

NextClient ==
    \/ \E k \in 1..MaxLoginCalls, f \in LoginForms :
          HandleLogin(k, f[1], f[2])
    \/ \E k \in 1..MaxLoginCalls : LoginServe(k)
    \/ \E k \in 1..MaxLoginCalls, kind \in {"reject", "notfound"} :
          LoginUnreached(k, kind)
    \/ \E k \in 1..MaxLoginCalls : LoginResponse(k)
    \/ SignOut
    \/ ToggleAdmin
    \/ NavLibrary
    \/ NavAdmin
    \/ RegisterSignIn

SpecClient == InitClient /\ [][NextClient]_vars

----------------------------------------------------------------------------
(* The client's session: logins, sign-outs and the admin view *)

\* the login form is submitted with the credentials of the admin or of the
\* approved member
SessionForms == {<<AdminEmail, "admin123">>, <<"a@x", "pw">>}

\* the page is loaded without ?token= in its URL
InitSession ==
    /\ InitClient
    /\ configured = TRUE
    /\ regToken = 0

NextSession ==
    \/ \E k \in 1..MaxLoginCalls, f \in SessionForms :
          HandleLogin(k, f[1], f[2])
    \/ \E k \in 1..MaxLoginCalls : LoginServe(k)
    \/ \E k \in 1..MaxLoginCalls : LoginUnreached(k, "reject")
    \/ \E k \in 1..MaxLoginCalls : LoginResponse(k)
    \/ SignOut
    \/ ToggleAdmin
    \/ NavLibrary
    \/ NavAdmin
    \/ fetchAdminData(1)

SpecSession == InitSession /\ [][NextSession]_vars

----------------------------------------------------------------------------
(* The views of the client: registration, login, sign-out and navigation *)

\* what the register form and the login form are submitted with
ViewRegForms == {<<"c@x", "pw", "Cy">>}
ViewLoginForms == {<<AdminEmail, "admin123">>, <<"a@x", "pw">>}

\* the page is loaded without ?token= in its URL, with a token no link
\* has, or with the token of the link of an earlier call of generate-link
InitView ==
    /\ configured \in BOOLEAN
    /\ tzShift = 0
    /\ now = 1
    /\ users = {SeedAdmin(TRUE)} \cup SeedMembers
    /\ links = {[id |-> 1, token |-> TokenOf(1), expires_at |-> HoursValid,
                 created_at |-> 0]}
    /\ nextUser = 4
    /\ nextLink = 2
    /\ reg = [i \in 1..MaxReg |-> IdleReg]
    /\ lastLogin = NoLogin
    /\ appr = IdleAppr
    /\ approvals = {}
    /\ tokenUses = [t \in {BogusToken} \cup {TokenOf(k) : k \in 1..MaxLinks} |-> 0]
    /\ user = NoBody
    /\ \E t \in {0, BogusToken, TokenOf(1)} :
          /\ regToken = t
          /\ view = IF t # 0 THEN "register" ELSE "login"
    /\ loginCalls = [k \in 1..MaxLoginCalls |-> IdleCall]
    /\ lastToast = NoToast
    /\ handled = NoneHandled
    /\ UploadIdle
    /\ CatalogEmpty
    /\ AdminIdle
    /\ LibraryIdle
    /\ RegisterIdle
    /\ MailIdle

NextView ==
    \/ \E i \in 1..MaxReg, f \in ViewRegForms :
          HandleRegister(i, f[1], f[2], f[3])
    \/ \E i \in 1..MaxReg : RegisterArrives(i)
    \/ \E i \in 1..MaxReg : RegisterCheck(i)
    \/ \E i \in 1..MaxReg : RegisterInsert(i)
    \/ \E i \in 1..MaxReg : RegisterDelete(i)
    \/ \E i \in 1..MaxReg, kind \in {"reject", "notfound"} :
          RegisterUnreached(i, kind)
    \/ \E i \in 1..MaxReg : RegisterResponse(i)
    \/ \E f \in ViewLoginForms : HandleLogin(1, f[1], f[2])
    \/ LoginServe(1)
    \/ LoginUnreached(1, "reject")
    \/ LoginResponse(1)
    \/ SignOut
    \/ ToggleAdmin
    \/ NavLibrary
    \/ NavAdmin
    \/ RegisterSignIn

SpecView == InitView /\ [][NextView]_vars

----------------------------------------------------------------------------
(* The add-material form in the admin view of a logged-in admin *)

InitUpload ==
    /\ InitServer
    /\ tzShift = 0
    /\ user = [id |-> 1, email |-> AdminEmail, name |-> "System Admin",
               isAdmin |-> TRUE]
    /\ view = "admin"
    /\ regToken = 0
    /\ loginCalls = [k \in 1..MaxLoginCalls |-> IdleCall]
    /\ lastToast = NoToast
    /\ handled = NoneHandled
    /\ UploadIdle
    /\ CatalogEmpty
    /\ AdminIdle
    /\ LibraryIdle
    /\ RegisterIdle
    /\ MailIdle

NextUpload ==
    \/ \E f \in FilledForms : FillForm(f)
    \/ HandleAddBook
    \/ \E o \in {"blob", "throw", "null"} : Thumbnail(o)
    \/ \E res \in UploadResponses : PdfUpload(res)
    \/ \E res \in UploadResponses : ThumbUpload(res)
    \/ \E res \in Responses : SaveRecord(res)

SpecUpload == InitUpload /\ [][NextUpload]_vars

----------------------------------------------------------------------------
(* The admin panel of a logged-in admin: its fetch and its removals *)

\* accounts of earlier registrations that await approval
SeedPending ==
    {[id |-> 3, email |-> "b@x", password |-> "pw", name |-> "Ben",
      is_approved |-> FALSE, is_admin |-> FALSE],
     [id |-> 4, email |-> "c@x", password |-> "pw", name |-> "Cy",
      is_approved |-> FALSE, is_admin |-> FALSE]}

\* the link of an earlier call of generate-link, at the hour 0
SeedLinks ==
    {[id |-> 1, token |-> TokenOf(1), expires_at |-> HoursValid,
      created_at |-> 0]}

\* the row of an earlier submission of the add-material form
SeedCatalog ==
    LET academic == CHOOSE f \in FilledForms :
                        f.category = ACADEMIC /\ f.file = "pdf"
    IN <<BookRow(BookData(academic, "materials/2-thumbnail.jpg",
                          "materials/1-book.pdf"), 1)>>

\* the store and the session of the admin panel
InitPanel ==
    /\ tzShift = 0
    /\ now = 1
    /\ users = {SeedAdmin(TRUE)} \cup SeedPending
    /\ links = SeedLinks
    /\ nextUser = 5
    /\ nextLink = 2
    /\ reg = [i \in 1..MaxReg |-> IdleReg]
    /\ lastLogin = NoLogin
    /\ appr = IdleAppr
    /\ approvals = {}
    /\ tokenUses = [t \in {BogusToken} \cup {TokenOf(k) : k \in 1..MaxLinks} |-> 0]
    /\ user = [id |-> 1, email |-> AdminEmail, name |-> "System Admin",
               isAdmin |-> TRUE]
    /\ view = "admin"
    /\ regToken = 0
    /\ loginCalls = [k \in 1..MaxLoginCalls |-> IdleCall]
    /\ lastToast = NoToast
    /\ handled = NoneHandled
    /\ UploadIdle
    /\ catalog = SeedCatalog
    /\ nextBook = 2
    /\ LibraryIdle
    /\ RegisterIdle
    /\ MailIdle

\* the panel after a fetch has committed the three lists
InitAdmin ==
    /\ InitPanel
    /\ configured = TRUE
    /\ pendingUsers = Sorted(PendingRows, [u \in PendingRows |-> u.id])
    /\ adminLinks = LinksNewestFirst
    /\ books = NormalizeBooks(Reverse(catalog))
    /\ ops = [k \in OpSlots |-> IdleOp]
    /\ fetches = [f \in FetchSlots |-> IdleFetch]
    /\ lastOp = NoOpDone
    /\ lastFetch = NoFetchDone

NextAdmin ==
    \/ \E k \in OpSlots, id \in Ids(pendingUsers) : approveUser(k, id)
    \/ \E k \in OpSlots, id \in Ids(adminLinks) : deleteLink(k, id)
    \/ \E k \in OpSlots, id \in Ids(books) : deleteBook(k, id)
    \/ \E k \in OpSlots : OpServe(k)
    \/ \E k \in OpSlots, kind \in {"reject", "error"} : OpUnreached(k, kind)
    \/ \E k \in OpSlots : OpResponse(k)

SpecAdmin == InitAdmin /\ [][NextAdmin]_vars

----------------------------------------------------------------------------
(* The admin panel's fetch, entered by a logged-in admin *)

InitFetch ==
    /\ InitPanel
    /\ configured \in BOOLEAN
    /\ AdminIdle

NextFetch ==
    \/ \E f \in FetchSlots : fetchAdminData(f)
    \/ \E f \in FetchSlots, j \in 1..3 :
          \E body \in Payloads(j) : FetchServe(f, j, body)
    \/ \E f \in FetchSlots, j \in 1..3, kind \in {"reject", "error"} :
          FetchUnreached(f, j, kind)
    \/ \E f \in FetchSlots : FetchCommit(f)

SpecFetch == InitFetch /\ [][NextFetch]_vars

----------------------------------------------------------------------------
(* The library of a signed-in member: the books fetch and the filter *)

\* the rows of earlier submissions of the add-material form, oldest first
LibraryCatalogs ==
    LET academic == CHOOSE f \in FilledForms :
                        f.category = ACADEMIC /\ f.file = "pdf"
        novel == CHOOSE f \in FilledForms :
                        f.category = CHRISTIAN_NOVEL /\ f.file = "pdf"
        row(f, id) == BookRow(BookData(f, "materials/2-thumbnail.jpg",
                                       "materials/1-book.pdf"), id)
    IN {<<>>, <<row(academic, 1), row(novel, 2)>>}

\* a member has signed in while the books fetch of the page load, called
\* by useEffect(() => { fetchBooks(); }, []), is in flight
InitLibrary ==
    /\ configured \in BOOLEAN
    /\ tzShift = 0
    /\ now = 0
    /\ users = {SeedAdmin(TRUE)} \cup SeedMembers
    /\ links = {}
    /\ nextUser = 4
    /\ nextLink = 1
    /\ reg = [i \in 1..MaxReg |-> IdleReg]
    /\ lastLogin = NoLogin
    /\ appr = IdleAppr
    /\ approvals = {}
    /\ tokenUses = [t \in {BogusToken} \cup {TokenOf(k) : k \in 1..MaxLinks} |-> 0]
    /\ user = [id |-> 2, email |-> "a@x", name |-> "Ann", isAdmin |-> FALSE]
    /\ view = "library"
    /\ regToken = 0
    /\ loginCalls = [k \in 1..MaxLoginCalls |-> IdleCall]
    /\ lastToast = NoToast
    /\ handled = NoneHandled
    /\ UploadIdle
    /\ catalog \in LibraryCatalogs
    /\ nextBook = Len(catalog) + 1
    /\ AdminIdle
    /\ filters = DefaultFilters
    /\ dbError = Null
    /\ booksFetch = BooksSent
    /\ RegisterIdle
    /\ MailIdle

NextLibrary ==
    \/ BooksServe
    \/ \E kind \in {"reject", "error", "nojson"} : BooksUnreached(kind)
    \/ BooksResponse
    \/ \E text \in SearchTexts : SetSearch(text)
    \/ \E c \in {ACADEMIC, CHRISTIAN_NOVEL} : SetCategory(c)
    \/ \E d \in DepartmentOptions : SetDepartment(d)
    \/ \E l \in LevelOptions : SetLevel(l)
    \/ ClearFilters
    \/ \E c \in {ACADEMIC, CHRISTIAN_NOVEL} : NavSection(c)

SpecLibrary == InitLibrary /\ [][NextLibrary]_vars

----------------------------------------------------------------------------
(* Approvals and their notification emails *)

\* the store holds the admin and two pending accounts; SMTP_HOST may be set
InitApprove ==
    /\ configured \in BOOLEAN
    /\ tzShift = 0
    /\ now = 1
    /\ users = {SeedAdmin(TRUE)} \cup SeedPending
    /\ links = {}
    /\ nextUser = 5
    /\ nextLink = 1
    /\ reg = [i \in 1..MaxReg |-> IdleReg]
    /\ lastLogin = NoLogin
    /\ appr = IdleAppr
    /\ approvals = {}
    /\ tokenUses = [t \in {BogusToken} \cup {TokenOf(k) : k \in 1..MaxLinks} |-> 0]
    /\ ClientIdle
    /\ UploadIdle
    /\ CatalogEmpty
    /\ AdminIdle
    /\ LibraryIdle
    /\ regCalls = [i \in 1..MaxReg |-> IdleRegCall]
    /\ smtp \in BOOLEAN
    /\ mail = NoMail
    /\ lastRequest = NoRequest

NextApprove ==
    \/ \E id \in UserIds \cup {0} : ApproveFetch(id)
    \/ ApproveUpdate
    \/ \E id \in UserIds, outcome \in {"sent", "failed"} : MailDone(id, outcome)

SpecApprove == InitApprove /\ [][NextApprove]_vars

----------------------------------------------------------------------------
(* The admin routes, open to every caller *)

\* the store holds the admin and two pending accounts, no link and no book
InitRoutes ==
    /\ InitApprove
    /\ smtp = FALSE

\* the ids a request names: no row, the users 1, 3, 4, the links and books
RequestIds == 0..4

NextRoutes ==
    \E c \in Callers :
        \/ \E id \in RequestIds :
              AdminRequest(c, "approve-user", id, Null)
        \/ AdminRequest(c, "generate-link", 0, Null)
        \/ \E id \in RequestIds :
              AdminRequest(c, "delete-link", id, Null)
        \/ \E body \in BookBodies :
              AdminRequest(c, "post-book", 0, body)
        \/ \E id \in RequestIds :
              AdminRequest(c, "delete-book", id, Null)

SpecRoutes == InitRoutes /\ [][NextRoutes]_vars

----------------------------------------------------------------------------
(* Properties of registration links and registration (Spec) *)

Slots == 1..MaxReg

\* the check of the link ran and found it expired
SeenExpired(r) == r.found /\ r.checkedAt >= 0 /\ r.link.expires_at < r.checkedAt

\* the check of the link ran and found it unexpired
SeenValid(r) == r.found /\ r.checkedAt >= 0 /\ ~(r.link.expires_at < r.checkedAt)

\* C1: over any interleaving of register requests carrying one token, at
\* most one user row is ever inserted using that token.
C1_AtMostOneUserPerToken ==
    \A t \in DOMAIN tokenUses : tokenUses[t] <= 1

\* C2: a register request whose token matches no link row, or whose link's
\* expiry is earlier than the current time, is answered with an error, and
\* it inserts no user row and deletes no link row.
C2_RejectedRegistrationHasNoEffect ==
    \A i \in Slots :
        (reg[i].pc = "done" /\ (~reg[i].found \/ SeenExpired(reg[i])))
        => /\ reg[i].status = 400
           /\ reg[i].error # ""
           /\ reg[i].inserted = 0
           /\ reg[i].deleted = 0

\* an expired link was refused, and so was a token whose link was issued
\* and is gone
C2_Witness ==
    \E i, j \in Slots :
        /\ reg[i].pc = "done" /\ SeenExpired(reg[i]) /\ reg[i].status = 400
        /\ reg[j].pc = "done" /\ ~reg[j].found /\ reg[j].checkedAt >= 0
        /\ reg[j].token \in IssuedTokens

C4_LinkExpires24hAfterIssue ==
    /\ \A l \in links : l.expires_at = l.created_at + HoursValid
    /\ \A i \in Slots :
        (reg[i].found /\ reg[i].checkedAt >= 0)
        => /\ (reg[i].checkedAt > reg[i].link.created_at + HoursValid)
                => reg[i].error = "Registration link expired"
           /\ (reg[i].checkedAt < reg[i].link.created_at + HoursValid)
                => reg[i].error # "Registration link expired"

----------------------------------------------------------------------------
(* Properties of login and approval (SpecLogin) *)

\* the ids of the rows register inserted
RegisteredIds == {reg[i].row.id : i \in {j \in Slots : reg[j].inserted = 1}}

\* C6: a login matching a row that is neither approved nor an admin is
\* answered 403 'Account pending approval' and grants no session; a matching
\* row that is approved, or is an admin, is granted a session.
C6_PendingRefusedOthersGranted ==
    lastLogin.found =>
        /\ (~lastLogin.row.is_approved /\ ~lastLogin.row.is_admin)
           => /\ lastLogin.resp.status = 403
              /\ lastLogin.resp.error = "Account pending approval"
              /\ lastLogin.resp.user = NoBody
        /\ (lastLogin.row.is_approved \/ lastLogin.row.is_admin)
           => /\ lastLogin.resp.status = 200
              /\ lastLogin.resp.user # NoBody
              /\ lastLogin.resp.user.id = lastLogin.row.id

\* an admin row that is not approved logged in
C6_Witness ==
    /\ lastLogin.found
    /\ lastLogin.row.is_admin /\ ~lastLogin.row.is_approved
    /\ lastLogin.resp.status = 200

\* C7: a successful login response consists of id, email, name and isAdmin
\* of the matched row; no login response carries the stored password, and
\* the response to a match does not depend on the stored password.
C7_LoginReplySanitized ==
    /\ lastLogin.resp.status = 200
       => /\ DOMAIN lastLogin.resp.user = {"id", "email", "name", "isAdmin"}
          /\ lastLogin.resp.user.id = lastLogin.row.id
          /\ lastLogin.resp.user.email = lastLogin.row.email
          /\ lastLogin.resp.user.name = lastLogin.row.name
          /\ lastLogin.resp.user.isAdmin = lastLogin.row.is_admin
          /\ lastLogin.resp.user.email \notin Passwords
          /\ lastLogin.resp.user.name \notin Passwords
    /\ lastLogin.resp.status # 200
       => /\ lastLogin.resp.user = NoBody
          /\ lastLogin.resp.error \notin Passwords
    /\ \A u \in users, p \in Passwords :
          LoginReply(TRUE, [u EXCEPT !.password = p]) = LoginReply(TRUE, u)

C7_Witness ==
    /\ lastLogin.found
    /\ lastLogin.resp.status = 200
    /\ lastLogin.row.password = lastLogin.password
    /\ lastLogin.row.id \in RegisteredIds

\* C8: a login with the correct credentials of a user created by register
\* is refused with 'pending approval' until approve-user has updated the
\* row, and succeeds after that update.
C8_RegisteredUserPendingUntilApproved ==
    (lastLogin.found /\ lastLogin.row.id \in RegisteredIds)
    => /\ ~lastLogin.approvedByAdmin
          => /\ lastLogin.resp.status = 403
             /\ lastLogin.resp.error = "Account pending approval"
       /\ lastLogin.approvedByAdmin => lastLogin.resp.status = 200

\* two registered users: the approved one has logged in, the other is
\* still pending
C8_Witness ==
    /\ lastLogin.found /\ lastLogin.row.id \in RegisteredIds
    /\ lastLogin.approvedByAdmin /\ lastLogin.resp.status = 200
    /\ \E u \in users : u.id \in RegisteredIds /\ ~u.is_approved

----------------------------------------------------------------------------
(* Properties of the client's login (SpecClient) *)

Calls == 1..MaxLoginCalls

\* C5 as stated: a login request returns a user only if a row has exactly
\* the submitted email and password; for every other pair the response is
\* 401 'Invalid credentials', and the client's user and view stay as they
\* are (unset, 'login').
C5_OnlyExactMatchLogsIn ==
    /\ \A k \in Calls :
        (loginCalls[k].pc = "answered" /\ loginCalls[k].served)
        => /\ Ok(loginCalls[k].resp)
              => /\ loginCalls[k].matched
                 /\ loginCalls[k].resp.user # NoBody
                 /\ loginCalls[k].resp.user.email = loginCalls[k].email
           /\ ~loginCalls[k].matched
              => /\ loginCalls[k].resp.status = 401
                 /\ loginCalls[k].resp.error = "Invalid credentials"
    /\ (handled.done /\ ~handled.matched) => handled.kept

\* C5 amended: for every other pair the response is an error: 401 'Invalid
\* credentials' when the store is configured, 500 with the configuration
\* message when it is not.
C5_OnlyExactMatchLogsInOrError ==
    /\ \A k \in Calls :
        (loginCalls[k].pc = "answered" /\ loginCalls[k].served)
        => /\ Ok(loginCalls[k].resp)
              => /\ loginCalls[k].matched
                 /\ loginCalls[k].resp.user # NoBody
                 /\ loginCalls[k].resp.user.email = loginCalls[k].email
           /\ ~loginCalls[k].matched
              => /\ loginCalls[k].resp.user = NoBody
                 /\ loginCalls[k].resp.status = IF configured THEN 401 ELSE 500
                 /\ loginCalls[k].resp.error =
                        IF configured THEN "Invalid credentials" ELSE ConfigError
    /\ (handled.done /\ ~handled.matched) => handled.kept

\* the handler refused a wrong password and the client stayed logged out
C5_Witness ==
    /\ handled.done /\ handled.served /\ ~handled.matched
    /\ handled.status = 401
    /\ lastToast.message = "Invalid credentials"
    /\ user = NoBody /\ view = "login"

----------------------------------------------------------------------------
(* Properties of the add-material submission (SpecUpload) *)

\* a fetch ended with a 2xx response whose body is JSON
Good(res) ==
    res.kind = "response" /\ res.json /\ res.status >= 200 /\ res.status <= 299

PhaseCalls == <<"upload_pdf", "upload_thumb", "books">>

AllPhasesOk ==
    /\ up.thumb = "blob"
    /\ Good(up.pdfRes) /\ Good(up.thumbRes) /\ Good(up.saveRes)

\* C9: the calls of one submission are issued in the order PDF upload,
\* thumbnail upload, record creation, each only if every earlier phase
\* succeeded.
C9_PhasesInOrder ==
    /\ \E n \in 0..3 : up.calls = SubSeq(PhaseCalls, 1, n)
    /\ Len(up.calls) >= 1 => up.thumb = "blob"
    /\ Len(up.calls) >= 2 => Good(up.pdfRes)
    /\ Len(up.calls) >= 3 => Good(up.thumbRes)

\* the PDF upload returned a body that is not JSON: no later call was issued
C9_Witness ==
    /\ up.pc = "done"
    /\ up.pdfRes.kind = "response" /\ ~up.pdfRes.json
    /\ up.calls = <<"upload_pdf">>

\* C10: a submission ends either with all four phases succeeded, a success
\* message and the form reset, or with a failed phase, exactly one error
\* message and the form as it was; the form is never reset after a failed
\* phase.
C10_SuccessOrOneError ==
    /\ up.pc # "done" => up.errorToasts = 0 /\ up.successToasts = 0 /\ up.resets = 0
    /\ up.pc = "done" =>
        \/ /\ AllPhasesOk
           /\ up.successToasts = 1 /\ up.errorToasts = 0
           /\ up.toast.type = "success"
           /\ up.resets = 1 /\ up.formAfter = BlankForm
        \/ /\ ~AllPhasesOk
           /\ up.errorToasts = 1 /\ up.successToasts = 0
           /\ up.toast.type = "error"
           /\ up.resets = 0 /\ up.formAfter = up.formBefore

\* the record creation was refused: one error, the form keeps its input
C10_Witness ==
    /\ up.pc = "done"
    /\ Len(up.calls) = 3 /\ up.saveRes.json /\ ~Good(up.saveRes)
    /\ up.errorToasts = 1
    /\ form = up.data /\ form \in FilledForms

\* C11: the record a successful upload sends to the catalog store, and the
\* row the store then holds, has the course title as its title when the
\* category is Academic and the title field otherwise, the fixed author,
\* as cover URL the URL the thumbnail upload returned, as download URL the
\* URL the PDF upload returned, and, for Academic, the submitted
\* department, level, course code and course title.
C11_RecordOfSuccessfulUpload ==
    (up.pc = "done" /\ AllPhasesOk) =>
        /\ Len(catalog) >= 1
        /\ LET row == catalog[Len(catalog)]
               d == up.data
           IN /\ row = BookRow(up.record, row.id)
              /\ row.title = IF d.category = ACADEMIC THEN d.course_title
                             ELSE d.title
              /\ row.title # Null
              /\ row.author = "DLCF Library"
              /\ row.category = d.category
              /\ row.cover_url = up.thumbRes.url
              /\ row.download_url = up.pdfRes.url
              /\ d.category = ACADEMIC =>
                    /\ row.department = d.department
                    /\ row.level = d.level
                    /\ row.course_code = d.course_code
                    /\ row.course_title = d.course_title

\* the scenario of the spec, the two uploads having returned different URLs
C11_Witness ==
    /\ up.pc = "done" /\ AllPhasesOk
    /\ up.data.category = ACADEMIC
    /\ up.thumbRes.url # up.pdfRes.url
    /\ Len(catalog) >= 1
    /\ catalog[Len(catalog)].title = "Intro to CS"
    /\ catalog[Len(catalog)].course_code = "CSC101"
    /\ catalog[Len(catalog)].department = "Computer Science"
    /\ catalog[Len(catalog)].level = "100"

----------------------------------------------------------------------------
(* Properties of the admin panel (SpecAdmin) *)

\* C12: an optimistic removal with no other operation in flight removes
\* the item from the displayed list before the remote call returns; if the
\* call fails, the list afterwards is the list as it was right before the
\* removal, same items, data and order; if it succeeds, the item stays
\* removed.
C12_OptimisticRemovalRoundTrips ==
    /\ \A k \in OpSlots :
          (ops[k].pc # "idle" /\ ops[k].alone)
          => /\ ops[k].id \in Ids(ops[k].previous)
             /\ ops[k].id \notin Ids(ListOf(ops[k].kind))
             /\ ListOf(ops[k].kind) = Without(ops[k].previous, ops[k].id)
    /\ (lastOp.done /\ lastOp.alone)
       => /\ ~lastOp.ok => lastOp.restored /\ ~lastOp.removed
          /\ lastOp.ok => lastOp.removed /\ ~lastOp.restored

\* a removal of the first of two items failed and was rolled back
C12_Witness ==
    /\ lastOp.done /\ lastOp.alone /\ ~lastOp.ok /\ lastOp.restored
    /\ Len(pendingUsers) = 2
    /\ lastToast.message = "Failed to approve user"

----------------------------------------------------------------------------
(* Properties of the admin panel's fetch (SpecFetch) *)

\* C18: the admin fetch commits each of its three results independently:
\* whenever one of the three fails, by a non-2xx response or by a network
\* error, the results of the others that succeeded are still committed to
\* pendingUsers, adminLinks or books.
C18_FetchCommitsEachResult ==
    lastFetch.done => ~lastFetch.lost

----------------------------------------------------------------------------
(* Properties of the library (SpecLibrary) *)

\* the text contains the search text at some position, letters compared
\* without regard to their case
ContainsIgnoringCase(text, search) ==
    /\ text \notin {Null, Undefined}
    /\ LET t == Chars(text)
           q == Chars(search)
       IN \E i \in 0..(Len(t) - Len(q)) :
             \A j \in 1..Len(q) :
                ToLowerCase(<<t[i + j]>>) = ToLowerCase(<<q[j]>>)

Satisfies(book) ==
    /\ \/ ContainsIgnoringCase(book.title, filters.search)
       \/ ContainsIgnoringCase(book.author, filters.search)
       \/ ContainsIgnoringCase(book.courseCode, filters.search)
       \/ ContainsIgnoringCase(book.courseTitle, filters.search)
    /\ book.category = filters.category
    /\ filters.department # "All"
       => book.category = ACADEMIC /\ book.department = filters.department
    /\ filters.level # "All"
       => book.category = ACADEMIC /\ book.level = filters.level

FilterBy(list, n) ==
    SelectSeq(list, LAMBDA book :
        CASE n = 1 -> matchesSearch(book, filters)
          [] n = 2 -> matchesCategory(book, filters)
          [] n = 3 -> matchesDept(book, filters)
          [] n = 4 -> matchesLevel(book, filters))

\* C14: filtering is idempotent, and applying the four predicates one
\* after the other, in any order, gives the same list as applying them
\* together.
C14_FilterIdempotentCommutative ==
    /\ FilterBooks(filteredBooks, filters) = filteredBooks
    /\ \A p \in Permutations(1..4) :
          FilterBy(FilterBy(FilterBy(FilterBy(books, p[1]), p[2]), p[3]),
                   p[4]) = filteredBooks

\* every predicate is selective: the filter keeps one of the two fetched
\* books
C14_Witness ==
    /\ booksFetch.res.kind = "ok"
    /\ Len(books) = 2
    /\ filters.search = "CS"
    /\ filters.department = "Computer Science"
    /\ filters.level = "100"
    /\ Len(filteredBooks) = 1

\* C19 as stated: whenever the initial books fetch fails (network error,
\* non-2xx, or missing configuration), the book set becomes the demo
\* catalog and the banner notice (dbError) is set.
C19_FailureSetsBanner ==
    (booksFetch.pc = "done" /\ booksFetch.res.kind # "ok")
    => books = INITIAL_BOOKS /\ dbError # Null

\* C19: whenever the initial books fetch fails (network error, non-2xx, or
\* missing configuration), the book set becomes the demo catalog; the
\* banner notice (dbError) is set exactly when the answer is the JSON
\* error that names SUPABASE_URL, the answer of a server without its
\* configuration, and stays null after any other failure.
C19_FailureShowsDemoCatalog ==
    (booksFetch.pc = "done" /\ booksFetch.res.kind # "ok")
    => /\ books = INITIAL_BOOKS
       /\ dbError # Null <=> booksFetch.res.error = ConfigError
       /\ dbError # Null => dbError = Banner /\ ~configured

\* the server has no configuration: demo catalog and banner
C19_Witness ==
    /\ booksFetch.pc = "done"
    /\ booksFetch.res.kind = "error"
    /\ booksFetch.res.error = ConfigError
    /\ books = INITIAL_BOOKS
    /\ dbError = Banner

----------------------------------------------------------------------------
(* Properties of the client's views (SpecView, SpecSession) *)

\* C15: the view 'register' is entered only at page load, when the URL
\* carries a token; from every state that is not the register view, no
\* client action and no response sets the view to 'register' again.
C15_RegisterOnlyAtPageLoad ==
    /\ (view = "register" => regToken # 0)
    /\ [][view # "register" => view' # "register"]_vars

\* the member left the register view by the sign-in link and logged in,
\* and the registration submitted before was refused afterwards
C15_Witness ==
    /\ user # NoBody
    /\ view = "library"
    /\ regCalls[1].pc = "closed"
    /\ reg[1].status = 400
    /\ lastToast.type = "error"

C17_StaleLoginApplied ==
    [][\A k \in 1..MaxLoginCalls :
          (/\ loginCalls[k].pc = "answered"
           /\ loginCalls[k].signedOut
           /\ Ok(loginCalls[k].resp)
           /\ loginCalls'[k].pc = "idle")
          => /\ user' = loginCalls[k].resp.user
             /\ view' \in {"library", "admin"}
             /\ view' = ViewAfterLogin(loginCalls[k].resp.user)]_vars

\* after a sign-out, in the login view, the response of the earlier
\* submission has logged the member in
C17_Witness ==
    /\ handled.done /\ handled.stale /\ handled.status = 200 /\ ~handled.kept
    /\ user # NoBody
    /\ view = "library"
    /\ \A k \in 1..MaxLoginCalls : loginCalls[k].pc = "idle"

----------------------------------------------------------------------------
(* Properties of approvals and their emails (SpecApprove) *)

\* C20: approve-user for an existing user id sets the user's approved
\* flag and answers success whatever the outcome of the notification email
\* (sent, failed, or skipped because SMTP is not configured); the outcome
\* of the email never reverts the flag nor turns the answer into an error,
\* and the answer is not delayed until the email completes.
C20_ApprovalIndependentOfEmail ==
    /\ [](\A u \in users : u.id \in approvals => u.is_approved)
    /\ []((configured /\ appr.pc = "done" /\ appr.userId \in UserIds)
            => appr.status = 200 /\ appr.userId \in approvals)
    /\ [][mail'.sending # mail.sending /\ mail'.sending \subseteq mail.sending
            => users' = users /\ appr' = appr]_vars
    /\ [][(appr.pc = "update" /\ appr'.pc = "done")
            => /\ appr'.status = 200
               /\ smtp => appr.userId \in mail'.sending]_vars

\* the approval of user 3 was answered while its email was in flight, the
\* email then failed, and the approval of user 4 has been answered since
C20_Witness ==
    /\ smtp
    /\ 3 \in mail.failed
    /\ 4 \in mail.sending
    /\ appr.pc = "done" /\ appr.status = 200 /\ appr.userId = 4
    /\ \A u \in users : u.id \in {3, 4} => u.is_approved

----------------------------------------------------------------------------
(* Further properties of accounts (SpecLogin) *)

\* the row of users' with the id of u
RowAfter(u) == CHOOSE v \in users' : v.id = u.id

\* C22: over every sequence of server operations, user rows are only added
\* by register and changed by approve-user: no operation deletes a user
\* row, changes its email, name, password or admin flag, or sets an
\* approved flag back to false; approving an approved user changes nothing.
C22_UserRowsOnlyGrowAndApprove ==
    [][/\ \A u \in users :
             /\ \E v \in users' : v.id = u.id
             /\ RowAfter(u).email = u.email
             /\ RowAfter(u).name = u.name
             /\ RowAfter(u).password = u.password
             /\ RowAfter(u).is_admin = u.is_admin
             /\ u.is_approved => RowAfter(u).is_approved
       /\ users' # users
             => \/ \E i \in 1..MaxReg :
                      /\ reg[i].pc = "insert"
                      /\ users' = users \cup {reg'[i].row}
                      /\ ~reg'[i].row.is_approved
                \/ /\ appr.pc = "update"
                   /\ \E u \in users :
                         /\ u.id = appr.userId
                         /\ ~u.is_approved
                         /\ users' = (users \ {u})
                                     \cup {[u EXCEPT !.is_approved = TRUE]}]_vars

\* a registered user is approved, and an approval of them has been
\* answered again since
C22_Witness ==
    \E u \in users :
        /\ u.id > 1
        /\ u.is_approved
        /\ appr.pc = "done" /\ appr.status = 200 /\ appr.userId = u.id
        /\ lastLogin.found /\ lastLogin.row.id = u.id
        /\ lastLogin.row.is_approved

----------------------------------------------------------------------------
(* Further properties of registration links and registration (Spec) *)

\* C23: a link is usable only strictly before its expiry: a registration
\* attempted at a current time equal to the link's expiry time is rejected
\* as expired.
C23_RejectedAtExpiryInstant ==
    \A i \in Slots :
        (/\ reg[i].pc = "done"
         /\ reg[i].found
         /\ reg[i].checkedAt = reg[i].link.expires_at)
        => /\ reg[i].status = 400
           /\ reg[i].error = "Registration link expired"
           /\ reg[i].inserted = 0

\* C24: once DELETE /api/admin/links/:id for a link has completed, no user
\* row is inserted afterwards by a registration using that link's token,
\* also not by a request that had validated the token before the revoke:
\* where no other registration carries the token, the link row is there
\* when the user row is inserted.
C24_NoInsertAfterRevoke ==
    [][\A i \in Slots :
          (/\ reg[i].pc = "insert"
           /\ reg'[i].inserted > reg[i].inserted
           /\ \A j \in Slots \ {i} : reg[j].token # reg[i].token)
          => \E l \in links : l.token = reg[i].token]_vars

\* C25: if the user insert of a register request fails (the store rejects
\* a duplicate email), the request answers 400, no user row is added and
\* the registration link is not deleted: the token remains usable for a
\* later registration until it expires.
C25_FailedInsertKeepsLink ==
    [][\A i \in Slots :
          (reg[i].pc = "insert" /\ reg'[i].pc = "done")
          => /\ reg'[i].status = 400
             /\ reg'[i].inserted = 0
             /\ reg'[i].deleted = 0
             /\ users' = users
             /\ links' = links]_vars

\* a registration with the email of an existing row was refused, and a
\* later one with the same token and a free email succeeded
C25_Witness ==
    \E i, j \in Slots :
        /\ reg[i].pc = "done" /\ reg[i].status = 400
        /\ reg[i].error = "duplicate key"
        /\ reg[j].pc = "done" /\ reg[j].status = 200
        /\ reg[j].token = reg[i].token
        /\ reg[j].checkedAt > reg[i].checkedAt
        /\ reg[j].inserted = 1

----------------------------------------------------------------------------
(* Further properties of the admin panel (SpecAdmin) *)

\* C26: when optimistic removals on one list overlap, the rollback of a
\* failed one never adds an item again whose own removal succeeded: after
\* all operations in flight have completed, the displayed lists hold no
\* item whose approve or delete was confirmed and hold every item whose
\* call failed, that is, the items the store still has.
C26_ListsAgreeAfterOverlap ==
    ~OpInFlight
    => /\ Ids(pendingUsers) = {u.id : u \in PendingRows}
       /\ Ids(adminLinks) = {l.id : l \in links}
       /\ Ids(books) = Ids(catalog)

----------------------------------------------------------------------------
(* Further properties of the client's views (SpecView) *)

\* C27: in every client state a user is set exactly when the view is
\* 'library' or 'admin': view 'login' or 'register' implies no user is
\* set, also when a registration response arrives after the user left the
\* register view and logged in.
C27_UserSetIffMainLayout ==
    user # NoBody <=> view \in {"library", "admin"}

----------------------------------------------------------------------------
(* Further properties of the library (SpecLibrary) *)

\* C29: with the selected category equal to 'All', the value Clear all
\* filters sets together with an empty search and department and level
\* 'All', the filtered list contains every book of the book set; stated
\* for a book set fetched from the store.
C29_ClearedFilterListsEveryBook ==
    (/\ booksFetch.pc = "done" /\ Len(booksFetch.res.body) > 0
     /\ filters.category = "All"
     /\ filters.search = ""
     /\ filters.department = "All"
     /\ filters.level = "All")
    => filteredBooks = books

\* C30: after any sequence of filter actions that ends by selecting the
\* Christian Novel section, the filtered list contains every Christian
\* Novel book that matches the search text: a department or level chosen
\* before in the Academic section excludes no novel; stated for a book set
\* fetched from the store.
C30_NovelSectionListsEveryNovel ==
    (/\ booksFetch.pc = "done" /\ Len(booksFetch.res.body) > 0
     /\ filters.category = CHRISTIAN_NOVEL)
    => \A i \in 1..Len(books) :
          (books[i].category = CHRISTIAN_NOVEL /\ matchesSearch(books[i], filters))
          => \E n \in 1..Len(filteredBooks) : filteredBooks[n] = books[i]

----------------------------------------------------------------------------
(* Properties of the admin routes (SpecRoutes) *)

NoValue(x) == x \in {Null, Undefined}

\* C21: in every state of the catalog store, every book record whose
\* category is not Academic has no department, course code, course title
\* or level value, for the records of the add-material form and for every
\* record inserted by POST /api/admin/books.
C21_NovelsCarryNoAcademicFields ==
    \A i \in 1..Len(catalog) :
        catalog[i].category # ACADEMIC
        => /\ NoValue(catalog[i].department)
           /\ NoValue(catalog[i].level)
           /\ NoValue(catalog[i].course_code)
           /\ NoValue(catalog[i].course_title)

\* C28: a user's approved flag is set, a registration link is created or
\* deleted, and a book is inserted or deleted only by a request of a
\* client session whose logged-in user is an admin: the routes under
\* /api/admin take no effect for a caller who is not logged in or is not
\* an admin.
C28_AdminRoutesOnlyForAdmins ==
    lastRequest.changed => lastRequest.caller = "admin"

====
